---- MODULE Spec2Model ----
(***************************************************************************)
(* Model of the rule34 scraping plugins:                                   *)
(*   scrapers/rule34.xxx/rule34xxx_html.py  (HTML post scraper, one run    *)
(*                                           per item)                     *)
(*   scripts/bulk_scraper.py                (bulk run over store items)    *)
(*   scripts/rule34_stash_tagger.py         (wiki -> tag description sync) *)
(* Each program is a separate process; the variable `run` names the        *)
(* program a behaviour is a run of, and only that program's actions are    *)
(* enabled in it.                                                          *)
(***************************************************************************)
EXTENDS Integers, Sequences, FiniteSets, TLC

VARIABLES
    run,            \* which program this behaviour runs
    \* ---- rule34xxx_html.py ----
    htmlPc,         \* "call" | "loop" | "returned" | "emitted"
    retry_count,    \* parameter of scrape_html_tags
    attempt,        \* loop variable of scrape_html_tags
    responses,      \* what each request of the fetch was answered with
    sleeps,         \* the time.sleep() durations of the fetch, in order
    htmlWaits,      \* rate-limiter wait() calls seen before each request
    categorized_tags, \* return value of scrape_html_tags
    output,         \* what main printed to stdout
    \* ---- _wait_for_rate_limit ----
    limiter,        \* "bulk" (BulkScraper) | "wiki" (Rule34WikiScraper)
    rate_limit,     \* self.rate_limit, in ticks
    now,            \* time.time(), in ticks
    last_request_time,  \* self.last_request_time
    prev_request_time,  \* last_request_time before the latest call set it
    calls,          \* calls of _wait_for_rate_limit so far
    slept,          \* ticks spent in time.sleep by the limiter
    last_sleep,     \* ticks the latest call slept
    \* ---- BulkScraper.scrape_all: ordering of the scrapers ----
    orderPc,        \* "start" | "ordered" | "aborted"
    all_scrapers,   \* what list_scrapers returned
    scraper_name,   \* the requested name (<<>>: none)
    ordered_scrapers,   \* the list scrape_all built
    \* ---- rule34_stash_tagger.py: TagSyncer ----
    syncPc,         \* "run" | "done" | "crashed" (an exception left sync_tags)
    stash_tags,     \* the tags handed to sync_tags: [id, description]
    skip_existing,  \* TagSyncer.skip_existing
    force,          \* TagSyncer.force
    sync_dry_run,   \* TagSyncer.dry_run
    syncResults,    \* results of sync_tags so far
    syncStats,      \* TagSyncer.stats
    tagDescription, \* the store's description of each tag
    tagUpdateCalls, \* tagUpdate mutations sent, by place of the tag
    wikiLog,        \* per tag: the requests scrape_tag sent, its error and
                    \* what its search request ended with
    wikiWaits,      \* wait() calls seen before a request attempt (a set)
    \* ---- bulk_scraper.py: BulkScraper.scrape_all / scrape_item ----
    bulkPc,         \* "order" | "items" | "strategies" | "done"
    options,        \* the BulkScraper options
    items,          \* the items the store pages hand to scrape_all
    items_fetched,  \* items taken so far
    scraper_index,  \* place of the next strategy in scrapers_to_try
    result,         \* the ScrapeResult scrape_item is building
    tried,          \* what each scrape of the current item gave
    results,        \* scrape_all's results
    triedLog,       \* tried, kept for every finished item
    stats,          \* BulkScraper.stats
    item_store,     \* the store's record of each item
    mutations,      \* mutation requests sent to the store
    bulkWaits,      \* wait() calls seen before a scrape attempt (a set)
    \* ---- bulk_scraper.py: main ----
    item_type,      \* args.type: "image" | "scene" | "both"
    batch,          \* the item type of the scrape_all call under way
    all_results,    \* main's all_results
    \* ---- Rule34WikiScraper._find_wiki_id ----
    findPc,         \* "off" | "call" | "returned"
    links,          \* soup.find_all("a", href=True), in page order
    normalized_tag, \* the query, normalized by _normalize_tag_name
    wiki_id,        \* the value returned (NoId: None)
    \* ---- Rule34WikiScraper._extract_description ----
    extractPc,      \* "off" | "call" | "returned"
    soup,           \* the parsed wiki page
    description,    \* the value returned (NoDescription: None)
    passes,         \* the passes that were run, in order
    \* ---- Rule34WikiScraper._clean_description, called twice ----
    cleanPc,        \* "off" | "call" | "once_cleaned" | "twice_cleaned"
    raw_text,       \* the text given to the first call
    once_cleaned,   \* what the first call returned
    twice_cleaned,  \* what the call on once_cleaned returned
    \* ---- Rule34WikiScraper._remove_tag_dumps ----
    dumpPc,         \* "off" | "call" | "returned"
    words,          \* the text given, as its words
    kept_words,     \* the text returned, as its words
    \* ---- rule34xxx.py main, and the bulk run's look at its output ----
    apiPc,          \* "off" | "call" | "printed" | "scraped" | "judged"
    api_input,      \* credentials, the input of Stash, the API's answer
    printed,        \* the fields of the JSON object main printed
    scraped_data,   \* what stash.scrape_item hands the bulk run
    useful,         \* has_useful_data of scrape_item
    \* ---- rule34xxx_html.py : Rule34TagParser ----
    parsePc,        \* "off" | "feed"
    parser,         \* tags, current_tag_type, current_tag_link,
                    \* current_tag_name of the parser
    nesting,        \* where the events fed so far have led: inside a list
                    \* item that selected a category, inside a link opened
                    \* there, what the last event was, and whether text from
                    \* elsewhere is part of the name being built or of a
                    \* recorded one
    events_fed,     \* the number of events fed
    \* ---- the two scraper entry points, step by step ----
    entryPc,        \* "off" or the step main is at
    script,         \* "rule34xxx" | "rule34xxx_html"
    entry_input,    \* stdin, the environment, and what the site answers
    effects,        \* load_credentials calls and requests, in order
    stdout,         \* the objects printed, in order
    \* ---- bulk_scraper.py, the paging loop of scrape_all ----
    pagePc,         \* "off" | "find" | "items" | "returned" | "raised"
    store,          \* the ids of the items the store holds, ascending
    limit,          \* parameter of scrape_all; 0 stands for None and for 0
    page,           \* the page asked for next
    page_items,     \* items of the page being worked through
    item_at,        \* how many items of page_items the for loop has seen
    n_fetched,      \* items_fetched of scrape_all
    page_results,   \* results of scrape_all
    pages_seen      \* for each find call, in order: the length of the page
                    \* it returned and items_fetched at that time

htmlVars == <<htmlPc, retry_count, attempt, responses, sleeps, htmlWaits,
              categorized_tags, output>>

rateVars == <<limiter, rate_limit, now, last_request_time, prev_request_time,
              calls, slept, last_sleep>>

orderVars == <<orderPc, all_scrapers, scraper_name, ordered_scrapers>>

syncVars == <<syncPc, stash_tags, skip_existing, force, sync_dry_run,
              syncResults, syncStats, tagDescription, tagUpdateCalls,
              wikiLog, wikiWaits>>

bulkVars == <<bulkPc, options, items, items_fetched, scraper_index, result,
              tried, results, triedLog, stats, item_store, mutations,
              bulkWaits>>

mainVars == <<item_type, batch, all_results>>

findVars == <<findPc, links, normalized_tag, wiki_id>>

extractVars == <<extractPc, soup, description, passes>>

cleanVars == <<cleanPc, raw_text, once_cleaned, twice_cleaned>>

dumpVars == <<dumpPc, words, kept_words>>

apiVars == <<apiPc, api_input, printed, scraped_data, useful>>

parseVars == <<parsePc, parser, nesting, events_fed>>

entryVars == <<entryPc, script, entry_input, effects, stdout>>

pageVars == <<pagePc, store, limit, page, page_items, item_at, n_fetched,
              page_results, pages_seen>>

textVars == <<findVars, extractVars, cleanVars, dumpVars, apiVars, parseVars,
              entryVars, pageVars>>

vars == <<run, htmlVars, rateVars, orderVars, syncVars, bulkVars, mainVars,
          textVars>>

(***************************************************************************)
(* Bounds                                                                  *)
(***************************************************************************)
MaxRetryCount == 4
MaxInterval == 3
MaxTime == 14
MaxGap == 4
MaxOvershoot == 1
MaxCalls == 4
MaxScrapers == 3
MaxAdapterRetries == 1
MaxDay == 2
MaxLinks == 2
MaxCells == 2
MaxTextLen == 4
MaxProse == 4
MaxEvents == 7
MaxStore == 5
MaxLimit == 3

(***************************************************************************)
(* rule34xxx_html.py : scrape_html_tags and the tail of main               *)
(***************************************************************************)
DefaultRetryCount == 3

\* HTTP error statuses urlopen raises HTTPError for (one other 4xx, 404,
\* 429 and the 5xx family).
HttpErrorCodes == {403, 404, 429, 500, 502, 503, 504}

\* Bodies of a page that urlopen returned normally (2xx).
PageBodies == {"tags", "no_tags", "chickens", "post_not_found"}

Page(b) == [kind |-> "page", code |-> 200, body |-> b]
HTTPError(c) == [kind |-> "HTTPError", code |-> c, body |-> "none"]
URLError == [kind |-> "URLError", code |-> 0, body |-> "none"]
OtherException == [kind |-> "Exception", code |-> 0, body |-> "none"]

Responses ==
    {Page(b) : b \in PageBodies} \cup {HTTPError(c) : c \in HttpErrorCodes}
        \cup {URLError, OtherException}

\* (mutant) only the first of the two signatures is looked for
HasNotFoundSignature_FirstOnly(r) == r.body = "chickens"

\* "Nobody here but us chickens" in html or "Post not found" in html
HasNotFoundSignature(r) == r.body \in {"chickens", "post_not_found"}

Pow2(k) == 2 ^ k

\* (mutant) 2 * attempt written for 2 ** attempt
RateLimitBackoff_Times(k) == 2 * k

\* time.sleep(2 ** attempt)
RateLimitBackoff(k) == Pow2(k)

\* time.sleep(1) of the 5xx and URLError branches
FlatBackoff == 1

Continue(s) == [ret |-> "continue", sleep |-> s]
Return(v) == [ret |-> v, sleep |-> 0]

\* (mutant) gives up one attempt early
RetryOrGiveUp_Early(k, n, s) ==
    IF k < n - 2 THEN Continue(s) ELSE Return("None")

\* (mutant) sleeps and continues after the last attempt too
RetryOrGiveUp_Late(k, n, s) == IF k < n THEN Continue(s) ELSE Return("None")

\* if attempt < retry_count - 1: sleep; continue  else: return None
RetryOrGiveUp(k, n, s) == IF k < n - 1 THEN Continue(s) ELSE Return("None")

\* (mutant) the other HTTP errors are retried like the 5xx ones
AttemptOutcome_RetryOther(r, k, n) ==
    CASE r.kind = "page" ->
            IF HasNotFoundSignature(r) THEN Return("False")
            ELSE Return(r.body)
      [] r.kind = "HTTPError" ->
            IF r.code = 404 THEN Return("False")
            ELSE IF r.code = 429 THEN RetryOrGiveUp(k, n, RateLimitBackoff(k))
            ELSE RetryOrGiveUp(k, n, FlatBackoff)
      [] r.kind = "URLError" -> RetryOrGiveUp(k, n, FlatBackoff)
      [] OTHER -> Return("None")

\* One iteration of the for loop: what attempt k of n does with response r.
AttemptOutcome(r, k, n) ==
    CASE r.kind = "page" ->
            IF HasNotFoundSignature(r) THEN Return("False")
            ELSE Return(r.body)
      [] r.kind = "HTTPError" ->
            IF r.code = 404 THEN Return("False")
            ELSE IF r.code = 429 THEN RetryOrGiveUp(k, n, RateLimitBackoff(k))
            ELSE IF r.code >= 500 THEN RetryOrGiveUp(k, n, FlatBackoff)
            ELSE Return("None")
      [] r.kind = "URLError" -> RetryOrGiveUp(k, n, FlatBackoff)
      [] OTHER -> Return("None")

\* rate-limiter wait() calls scrape_html_tags makes before a request: the
\* function holds no rate limiter and calls none.
HtmlWaitsBeforeRequest == 0

IdleHtml ==
    /\ htmlPc = "off"
    /\ retry_count = 0
    /\ attempt = 0
    /\ responses = <<>>
    /\ sleeps = <<>>
    /\ htmlWaits = <<>>
    /\ categorized_tags = "unset"
    /\ output = "unset"

InitHtml ==
    /\ htmlPc = "call"
    /\ retry_count = DefaultRetryCount
    /\ attempt = 0
    /\ responses = <<>>
    /\ sleeps = <<>>
    /\ htmlWaits = <<>>
    /\ categorized_tags = "unset"
    /\ output = "unset"

\* scrape_html_tags(post_id, retry_count=n) is entered.
scrape_html_tags(n) ==
    /\ run = "html"
    /\ htmlPc = "call"
    /\ htmlPc' = "loop"
    /\ retry_count' = n
    /\ UNCHANGED <<run, attempt, responses, sleeps, htmlWaits,
                   categorized_tags, output>>
    /\ UNCHANGED <<rateVars, orderVars, syncVars, bulkVars, mainVars, textVars>>

\* One request of the loop, answered with r.
Attempt(r) ==
    /\ run = "html"
    /\ htmlPc = "loop"
    /\ attempt < retry_count
    /\ responses' = Append(responses, r)
    /\ htmlWaits' = Append(htmlWaits, HtmlWaitsBeforeRequest)
    /\ LET o == AttemptOutcome(r, attempt, retry_count) IN
         IF o.ret = "continue"
         THEN /\ sleeps' = Append(sleeps, o.sleep)
              /\ attempt' = attempt + 1
              /\ UNCHANGED <<htmlPc, categorized_tags>>
         ELSE /\ categorized_tags' = o.ret
              /\ htmlPc' = "returned"
              /\ UNCHANGED <<sleeps, attempt>>
    /\ UNCHANGED <<run, retry_count, output>>
    /\ UNCHANGED <<rateVars, orderVars, syncVars, bulkVars, mainVars, textVars>>

\* The for loop ran out of iterations: return None  # All retries failed
LoopExhausted ==
    /\ run = "html"
    /\ htmlPc = "loop"
    /\ attempt >= retry_count
    /\ categorized_tags' = "None"
    /\ htmlPc' = "returned"
    /\ UNCHANGED <<run, retry_count, attempt, responses, sleeps, htmlWaits,
                   output>>
    /\ UNCHANGED <<rateVars, orderVars, syncVars, bulkVars, mainVars, textVars>>

\* What main prints for a return value of scrape_html_tags.  The value of
\* a successful fetch is a dict with five keys, which is truthy even when
\* every list in it is empty.
MainOutput(v) ==
    IF v = "None" THEN "{}"
    ELSE IF v = "False" THEN "{}"
    ELSE "mapped"

main_emit ==
    /\ run = "html"
    /\ htmlPc = "returned"
    /\ output' = MainOutput(categorized_tags)
    /\ htmlPc' = "emitted"
    /\ UNCHANGED <<run, retry_count, attempt, responses, sleeps, htmlWaits,
                   categorized_tags>>
    /\ UNCHANGED <<rateVars, orderVars, syncVars, bulkVars, mainVars, textVars>>

NextHtml ==
    \/ \E n \in 0..MaxRetryCount : scrape_html_tags(n)
    \/ \E r \in Responses : Attempt(r)
    \/ LoopExhausted
    \/ main_emit

(***************************************************************************)
(* _wait_for_rate_limit of BulkScraper (bulk_scraper.py) and of            *)
(* Rule34WikiScraper (rule34_stash_tagger.py).  Time is counted in whole   *)
(* ticks; time.time() does not run backwards and time.sleep(s) returns     *)
(* after at least s.                                                       *)
(***************************************************************************)
\* (mutant) sleeps for the elapsed time instead of the remaining time
SleepTime_Elapsed(rl, t, last) == IF t - last < rl THEN t - last ELSE 0

\* Seconds still to sleep: rate_limit - elapsed when elapsed < rate_limit.
SleepTime(rl, t, last) == IF t - last < rl THEN rl - (t - last) ELSE 0

\* BulkScraper._wait_for_rate_limit returns at once when rate_limit <= 0,
\* leaving last_request_time alone; the wiki scraper's has no such test.
ReturnsEarly(lim, rl) == lim = "bulk" /\ rl <= 0

InitRate ==
    /\ limiter \in {"bulk", "wiki"}
    /\ rate_limit \in 0..MaxInterval
    /\ now = MaxInterval + 1
    /\ last_request_time = 0
    /\ prev_request_time = 0
    /\ calls = 0
    /\ slept = 0
    /\ last_sleep = 0

IdleRate ==
    /\ limiter = "bulk"
    /\ rate_limit = 0
    /\ now = 0
    /\ last_request_time = 0
    /\ prev_request_time = 0
    /\ calls = 0
    /\ slept = 0
    /\ last_sleep = 0

\* A whole call of _wait_for_rate_limit; over is by how much the sleep and
\* the code around it overshoot.
wait_for_rate_limit(over) ==
    /\ run = "rate"
    /\ calls < MaxCalls
    /\ calls' = calls + 1
    /\ IF ReturnsEarly(limiter, rate_limit)
       THEN /\ last_sleep' = 0
            /\ UNCHANGED <<now, last_request_time, prev_request_time, slept>>
       ELSE LET s == SleepTime(rate_limit, now, last_request_time) IN
            /\ now + s + over <= MaxTime
            /\ now' = now + s + over
            /\ slept' = slept + s
            /\ last_sleep' = s
            /\ prev_request_time' = last_request_time
            /\ last_request_time' = now'
    /\ UNCHANGED <<run, limiter, rate_limit>>
    /\ UNCHANGED <<htmlVars, orderVars, syncVars, bulkVars, mainVars, textVars>>

\* Time passes between two calls (the request, the processing of an item).
Tick(d) ==
    /\ run = "rate"
    /\ now + d <= MaxTime
    /\ now' = now + d
    /\ UNCHANGED <<run, limiter, rate_limit, last_request_time,
                   prev_request_time, calls, slept, last_sleep>>
    /\ UNCHANGED <<htmlVars, orderVars, syncVars, bulkVars, mainVars, textVars>>

NextRate ==
    \/ \E over \in 0..MaxOvershoot : wait_for_rate_limit(over)
    \/ \E d \in 1..MaxGap : Tick(d)

(***************************************************************************)
(* bulk_scraper.py : the strategy order scrape_all builds.  A name is the  *)
(* sequence of its characters, so that lower() and the substring test of   *)
(* is_generic_scraper are computed rather than assumed.                    *)
(***************************************************************************)
\* str.lower() on one character
LowerChar(c) ==
    CASE c = "A" -> "a" [] c = "D" -> "d" [] c = "G" -> "g" [] c = "O" -> "o"
      [] c = "R" -> "r" [] c = "T" -> "t" [] c = "U" -> "u" [] OTHER -> c

\* str.lower()
Lower(name) == [i \in 1..Len(name) |-> LowerChar(name[i])]

\* keyword in name
Contains(hay, needle) ==
    \E i \in 0..(Len(hay) - Len(needle)) :
        SubSeq(hay, i + 1, i + Len(needle)) = needle

generic_keywords ==
    { <<"a","u","t","o">>, <<"g","e","n","e","r","i","c">>,
      <<"f","a","l","l","b","a","c","k">>, <<"d","e","f","a","u","l","t">>,
      <<"u","n","i","v","e","r","s","a","l">> }

\* any(keyword in scraper.name.lower() for keyword in generic_keywords)
is_generic_scraper(sc) ==
    \E kw \in generic_keywords : Contains(Lower(sc.name), kw)

\* Names a store's scrapers carry in the model: two specific names that
\* differ only in case, a third specific one, two generic ones that differ
\* only in case and one that holds a keyword inside a longer name.
ScraperNames ==
    { <<"R","3","4">>, <<"r","3","4">>, <<"G","e","l">>,
      <<"A","u","t","o">>, <<"a","u","t","o">>,
      <<"m","y","D","e","f","a","u","l","t">> }

\* Values of --scraper: none, three that can match and one that cannot.
RequestedNames ==
    { <<>>, <<"r","3","4">>, <<"A","U","T","O">>, <<"g","e","l">>, <<"z">> }

SupportedScrapes == { {"FRAGMENT", "URL"}, {"URL"} }

\* Scraper(id, name, supported_scrapes); the id is the place in the list
\* list_scrapers returned.
ScraperLists ==
    UNION { { [i \in 1..n |-> [id |-> i, name |-> f[i].name,
                                supported_scrapes |-> f[i].supported_scrapes]]
              : f \in [1..n -> [name : ScraperNames,
                                supported_scrapes : SupportedScrapes]] }
            : n \in 0..MaxScrapers }

IsFragment(sc) == "FRAGMENT" \in sc.supported_scrapes

\* [s for s in all_scrapers if "FRAGMENT" in s.supported_scrapes]
FragmentScrapers(all) == SelectSeq(all, IsFragment)

\* s.name.lower() == scraper_name.lower()
MatchesName(sc, name) == Lower(sc.name) = Lower(name)

MaxOf(S) == CHOOSE x \in S : \A y \in S : y <= x

NoScraper == [id |-> 0, name |-> <<>>, supported_scrapes |-> {}]

\* primary_scraper after the loop: the last scraper of that name, or None
PrimaryScraper(frag, name) ==
    LET hits == {i \in DOMAIN frag : MatchesName(frag[i], name)} IN
    IF hits = {} THEN NoScraper ELSE frag[MaxOf(hits)]

\* generic_scrapers / specific_scrapers of the requested-name branch
RestOfKind(frag, name, generic) ==
    SelectSeq(frag, LAMBDA sc : /\ ~MatchesName(sc, name)
                                /\ is_generic_scraper(sc) = generic)

\* [primary_scraper] + specific_scrapers + generic_scrapers
OrderWithRequest(frag, name) ==
    <<PrimaryScraper(frag, name)>> \o RestOfKind(frag, name, FALSE)
        \o RestOfKind(frag, name, TRUE)

\* (mutant) the scrapers are tried in the order list_scrapers gave them
OrderWithoutRequest_Unsorted(frag) == frag

\* specific_scrapers + generic_scrapers
OrderWithoutRequest(frag) ==
    SelectSeq(frag, LAMBDA sc : ~is_generic_scraper(sc))
        \o SelectSeq(frag, LAMBDA sc : is_generic_scraper(sc))

\* The head of scrape_all: the ordered list, or why the run ends without one.
OrderScrapers(all, name) ==
    LET frag == FragmentScrapers(all) IN
    IF all = <<>> THEN [pc |-> "aborted", list |-> <<>>]
    ELSE IF frag = <<>> THEN [pc |-> "aborted", list |-> <<>>]
    ELSE IF name # <<>> THEN
        IF PrimaryScraper(frag, name) = NoScraper
        THEN [pc |-> "aborted", list |-> <<>>]
        ELSE [pc |-> "ordered", list |-> OrderWithRequest(frag, name)]
    ELSE [pc |-> "ordered", list |-> OrderWithoutRequest(frag)]

InitOrder ==
    /\ orderPc = "start"
    /\ all_scrapers \in ScraperLists
    /\ scraper_name \in RequestedNames
    /\ ordered_scrapers = <<>>

IdleOrder ==
    /\ orderPc = "off"
    /\ all_scrapers = <<>>
    /\ scraper_name = <<>>
    /\ ordered_scrapers = <<>>

\* scrape_all, from list_scrapers to ordered_scrapers
scrape_all_order ==
    /\ run \in {"order", "bulk", "main"}
    /\ orderPc = "start"
    /\ LET o == OrderScrapers(all_scrapers, scraper_name) IN
         /\ orderPc' = o.pc
         /\ ordered_scrapers' = o.list
         /\ bulkPc' = IF run = "order" THEN bulkPc
                      ELSE IF o.pc = "ordered" THEN "items" ELSE "done"
    /\ UNCHANGED <<run, all_scrapers, scraper_name>>
    /\ UNCHANGED <<htmlVars, rateVars, syncVars, mainVars, textVars>>
    /\ UNCHANGED <<items, options, items_fetched, scraper_index, result, tried,
                   results, triedLog, stats, item_store, mutations, bulkWaits>>

NextOrder == scrape_all_order

(***************************************************************************)
(* bulk_scraper.py : BulkScraper.scrape_item and the item loop of          *)
(* scrape_all.  Dates and timestamps are counted in half days.             *)
(***************************************************************************)
NoDate == 0
DayLength == 2

Entity(n, stored) == [name |-> n, stored_id |-> stored]

ScrapedData(t, p, st, f) ==
    [tags |-> t, performers |-> p, studio |-> st, fields |-> f]

\* What stash.scrape_item can hand back as data: a code and nothing else, a
\* title, a stored tag followed by a new one, a new performer with a stored
\* studio, a new studio.
CodeOnly == ScrapedData(<<>>, <<>>, <<>>, {"code"})
TitleOnly == ScrapedData(<<>>, <<>>, <<>>, {"title"})
TwoTags ==
    ScrapedData(<<Entity("t1", TRUE), Entity("t2", FALSE)>>, <<>>, <<>>, {})
Cast ==
    ScrapedData(<<>>, <<Entity("p1", FALSE)>>, <<Entity("s1", TRUE)>>, {})
NewStudio == ScrapedData(<<>>, <<>>, <<Entity("s2", FALSE)>>, {})

ScrapedDataPool == {CodeOnly, TitleOnly, TwoTags, Cast, NewStudio}

\* any([tags, performers, studio, title, details, date, urls])
has_useful_data(d) ==
    \/ d.tags # <<>>
    \/ d.performers # <<>>
    \/ d.studio # <<>>
    \/ d.fields \cap {"title", "details", "date", "urls"} # {}

StashItem(ty, pa, tg, org, ts) ==
    [type |-> ty, path |-> pa, tags |-> tg, organized |-> org,
     file_timestamp |-> ts]

PlainItem == StashItem("image", TRUE, {}, FALSE, 4)
OrganizedItem == StashItem("scene", FALSE, {}, TRUE, 4)
TaggedItem == StashItem("image", TRUE, {"x"}, FALSE, 5)
NoPathItem == StashItem("image", FALSE, {}, FALSE, NoDate)
UndatedItem == StashItem("scene", TRUE, {"y"}, FALSE, NoDate)
LateItem == StashItem("image", TRUE, {}, FALSE, 8)

\* The batches scrape_all is run on.
ItemLists ==
    { <<PlainItem>>, <<PlainItem, TaggedItem>>, <<OrganizedItem, PlainItem>>,
      <<NoPathItem, LateItem>>, <<UndatedItem>> }

BulkOptionsRecord(dry, org, tagged, all, excl, since, before) ==
    [dry_run |-> dry, skip_organized |-> org, skip_tagged |-> tagged,
     try_all_scrapers |-> all, skip_if_has_tags |-> excl,
     date_since |-> since, date_before |-> before]

BulkOptions ==
    { BulkOptionsRecord(FALSE, FALSE, FALSE, FALSE, {}, NoDate, NoDate),
      BulkOptionsRecord(FALSE, TRUE, TRUE, TRUE, {}, NoDate, NoDate),
      BulkOptionsRecord(TRUE, FALSE, FALSE, FALSE, {}, NoDate, NoDate),
      BulkOptionsRecord(TRUE, TRUE, FALSE, TRUE, {}, NoDate, NoDate),
      BulkOptionsRecord(FALSE, FALSE, TRUE, FALSE, {}, NoDate, NoDate),
      BulkOptionsRecord(FALSE, FALSE, FALSE, FALSE, {"x"}, 4, NoDate),
      BulkOptionsRecord(FALSE, FALSE, FALSE, FALSE, {}, NoDate, 2) }

\* The scraper lists of the batch runs: a generic and a specific scraper,
\* one specific scraper, and one scraper that cannot scrape fragments.
BulkScraperLists ==
    { << [id |-> 1, name |-> <<"A","u","t","o">>,
          supported_scrapes |-> {"FRAGMENT", "URL"}],
         [id |-> 2, name |-> <<"r","3","4">>,
          supported_scrapes |-> {"FRAGMENT", "URL"}] >>,
      << [id |-> 1, name |-> <<"r","3","4">>,
          supported_scrapes |-> {"FRAGMENT", "URL"}] >>,
      << [id |-> 1, name |-> <<"G","e","l">>,
          supported_scrapes |-> {"URL"}] >> }

BulkRequestedNames == { <<>>, <<"A","U","T","O">> }

\* tag["name"].lower() of an item tag
LowerTag(n) == IF n = "X" THEN "x" ELSE n

\* (mutant) the before date itself is taken for the end of its day
end_of_day_SameDay(d) == d

\* end_of_day = self.date_before + timedelta(days=1)
end_of_day(d) == d + DayLength

\* (mutant) the path is looked at before the organized flag
should_skip_item_PathFirst(o, item) ==
    IF ~item.path
        THEN [skip |-> TRUE, reason |-> "no file path"]
    ELSE IF o.skip_organized /\ item.organized
        THEN [skip |-> TRUE, reason |-> "already organized"]
    ELSE [skip |-> FALSE, reason |-> "None"]

\* BulkScraper._should_skip_item
should_skip_item(o, item) ==
    IF o.skip_organized /\ item.organized
        THEN [skip |-> TRUE, reason |-> "already organized"]
    ELSE IF o.skip_tagged /\ item.tags # {}
        THEN [skip |-> TRUE, reason |-> "already has tags"]
    ELSE IF o.skip_if_has_tags \cap {LowerTag(n) : n \in item.tags} # {}
        THEN [skip |-> TRUE, reason |-> "has exclusion tag"]
    ELSE IF ~item.path
        THEN [skip |-> TRUE, reason |-> "no file path"]
    ELSE IF o.date_since # NoDate \/ o.date_before # NoDate
        THEN IF item.file_timestamp = NoDate
                THEN [skip |-> TRUE, reason |-> "no file timestamp available"]
             ELSE IF o.date_since # NoDate
                     /\ item.file_timestamp < o.date_since
                THEN [skip |-> TRUE, reason |-> "before date filter"]
             ELSE IF o.date_before # NoDate
                     /\ item.file_timestamp >= end_of_day(o.date_before)
                THEN [skip |-> TRUE, reason |-> "after date filter"]
             ELSE [skip |-> FALSE, reason |-> "None"]
    ELSE [skip |-> FALSE, reason |-> "None"]

\* A record of data with nothing in it
NoData == ScrapedData(<<>>, <<>>, <<>>, {})

\* ScrapeResult(item=item, scraper_name=primary_scraper.name)
ScrapeResult(i, name) ==
    [item |-> i, scraper_name |-> name, success |-> FALSE, scraped |-> FALSE,
     scraped_data |-> NoData,
     tags_created |-> <<>>, tags_added |-> <<>>,
     performers_created |-> <<>>, performers_added |-> <<>>,
     studio_created |-> "None", studio_added |-> "None",
      metadata_updated |-> {}, fallback_used |-> FALSE, error |-> "None",
     skipped |-> FALSE, skip_reason |-> "None"]

NoResult == ScrapeResult(0, <<>>)

\* ProgressStats()
ProgressStats ==
    [processed |-> 0, successful |-> 0, skipped |-> 0, failed |-> 0,
     tags_created |-> 0, tags_added |-> 0, performers_created |-> 0,
     performers_added |-> 0, studios_created |-> 0, studios_added |-> 0,
     fallback_used_count |-> 0, metadata_fields_updated |-> <<>>,
     scraper_success_count |-> <<>>, scraper_failure_count |-> <<>>]

\* The performers the store holds for an item; find_images and find_scenes
\* do not ask for them. In the pool, the item that has a tag has one.
HeldPerformers(item) == IF item.tags # {} THEN {"p0"} ELSE {}

\* The store's records of the items of the batch, before the run.
FreshStore(its) ==
    [i \in DOMAIN its |->
        [tag_ids |-> its[i].tags, performer_ids |-> HeldPerformers(its[i]),
         written |-> {}]]

InitBulk ==
    /\ bulkPc = "order"
    /\ orderPc = "start"
    /\ all_scrapers \in BulkScraperLists
    /\ scraper_name \in BulkRequestedNames
    /\ ordered_scrapers = <<>>
    /\ options \in BulkOptions
    /\ items \in ItemLists
    /\ items_fetched = 0
    /\ scraper_index = 0
    /\ result = NoResult
    /\ tried = <<>>
    /\ results = <<>>
    /\ triedLog = <<>>
    /\ stats = ProgressStats
    /\ item_store = FreshStore(items)
    /\ mutations = <<>>
    /\ bulkWaits = {}

IdleBulk ==
    /\ bulkPc = "off"
    /\ options = BulkOptionsRecord(FALSE, FALSE, FALSE, FALSE, {}, NoDate, NoDate)
    /\ items = <<>>
    /\ items_fetched = 0
    /\ scraper_index = 0
    /\ result = NoResult
    /\ tried = <<>>
    /\ results = <<>>
    /\ triedLog = <<>>
    /\ stats = ProgressStats
    /\ item_store = <<>>
    /\ mutations = <<>>
    /\ bulkWaits = {}

IdleMain ==
    /\ item_type = "none"
    /\ batch = "none"
    /\ all_results = <<>>

(***************************************************************************)
(* bulk_scraper.py : _should_skip_item called on its own, over every       *)
(* option setting main accepts and every item the store can hand over.     *)
(***************************************************************************)
\* parse_date gives midnights
SkipDates == {NoDate} \cup {DayLength * k : k \in 1..MaxDay}

SkipStamps == 0..(DayLength * MaxDay + DayLength + 1)

\* main refuses date_since > date_before
SkipOptions ==
    { o \in [dry_run : {FALSE}, skip_organized : BOOLEAN,
              skip_tagged : BOOLEAN, try_all_scrapers : {FALSE},
              skip_if_has_tags : {{}, {"x"}}, date_since : SkipDates,
              date_before : SkipDates] :
        (o.date_since # NoDate /\ o.date_before # NoDate)
            => o.date_since <= o.date_before }

\* find_images / find_scenes read a timestamp only for an item with a path
SkipItems ==
    { it \in [type : {"image"}, path : BOOLEAN,
               tags : {{}, {"x"}, {"X"}, {"y"}}, organized : BOOLEAN,
               file_timestamp : SkipStamps] :
        ~it.path => it.file_timestamp = NoDate }

InitSkip ==
    /\ bulkPc = "skip_call"
    /\ options \in SkipOptions
    /\ items \in {<<it>> : it \in SkipItems}
    \* need_timestamps = bool(date_since or date_before)
    /\ (options.date_since = NoDate /\ options.date_before = NoDate)
          => items[1].file_timestamp = NoDate
    /\ items_fetched = 0
    /\ scraper_index = 0
    /\ result = NoResult
    /\ tried = <<>>
    /\ results = <<>>
    /\ triedLog = <<>>
    /\ stats = ProgressStats
    /\ item_store = <<>>
    /\ mutations = <<>>
    /\ bulkWaits = {}

\* should_skip, skip_reason = self._should_skip_item(item)
should_skip_call ==
    /\ run = "skip"
    /\ bulkPc = "skip_call"
    /\ LET sk == should_skip_item(options, items[1]) IN
          result' = [NoResult EXCEPT !.skipped = sk.skip,
                                     !.skip_reason = sk.reason]
    /\ bulkPc' = "skip_returned"
    /\ UNCHANGED <<run, options, items, items_fetched, scraper_index, tried,
                   results, triedLog, stats, item_store, mutations, bulkWaits>>
    /\ UNCHANGED <<htmlVars, rateVars, orderVars, syncVars, mainVars, textVars>>

NextSkip == should_skip_call

\* The session retries a request by itself (urllib3 Retry, total =
\* max_retries) without going through _wait_for_rate_limit: wait() calls
\* seen before the attempts of one request that was re-sent r times.
WaitsSeenByAttempts(r) == IF r > 0 THEN {1, 0} ELSE {1}

Range(q) == {q[k] : k \in DOMAIN q}

ScrapeKinds == {"raise", "none", "data"}

EntityNames(ents) == {ents[k].name : k \in DOMAIN ents}

NewNames(ents) == {ents[k].name : k \in {j \in DOMAIN ents : ~ents[j].stored_id}}

\* What get_or_create_tag / _performer / _studio can do for each name the
\* data gives without a stored id: find it, create it, fail (None), or, for
\* a tag only (find_tag has no handler), raise.
CreationOutcomes(d) ==
    { f \in [NewNames(d.tags) \cup NewNames(d.performers)
                \cup NewNames(d.studio)
              -> {"found", "created", "none", "raise"}] :
        \A n \in DOMAIN f : f[n] = "raise" => n \in EntityNames(d.tags) }

Mutation(o, n, i, accepted) ==
    [op |-> o, name |-> n, item |-> i, ok |-> accepted]

\* (mutant) a dry run sends its mutations like any other run
SendsMutations_Always(dry) == TRUE

\* if not self.dry_run: the run may create entities and update the item
SendsMutations(dry) == ~dry

NothingProcessed ==
    [ids |-> <<>>, created |-> <<>>, added |-> <<>>, sent |-> <<>>,
     raised |-> FALSE]

\* The loops over scraped tags / performers and the studio block.
RECURSIVE ProcessEntities(_, _, _, _, _)
ProcessEntities(ents, f, dry, op, acc) ==
    IF ents = <<>> \/ acc.raised THEN acc
    ELSE LET n == Head(ents).name
             got == [acc EXCEPT !.ids = Append(@, n),
                                !.created = Append(@, n),
                                !.added = Append(@, n)]
             step ==
               IF Head(ents).stored_id
                 THEN [acc EXCEPT !.ids = Append(@, n), !.added = Append(@, n)]
               ELSE IF ~SendsMutations(dry)
                 THEN [acc EXCEPT !.created = Append(@, n),
                                  !.added = Append(@, n)]
               ELSE CASE f[n] = "raise" -> [acc EXCEPT !.raised = TRUE]
                      [] f[n] = "found" -> got
                      [] f[n] = "created" ->
                           [got EXCEPT !.sent = Append(@, Mutation(op, n, 0, TRUE))]
                      [] OTHER ->
                           [acc EXCEPT !.sent = Append(@, Mutation(op, n, 0, FALSE))]
         IN ProcessEntities(Tail(ents), f, dry, op, step)

\* The keys of the updates dictionary
Updates(d, item, dry, T, P, S) ==
    (IF d.tags # <<>> /\ (T.ids # <<>> \/ dry) THEN {"tag_ids"} ELSE {})
    \cup (IF d.performers # <<>> /\ (P.ids # <<>> \/ dry)
          THEN {"performer_ids"} ELSE {})
    \cup (IF S.ids # <<>> THEN {"studio_id"} ELSE {})
    \cup (d.fields \cap {"title", "details", "date", "urls", "code"})
    \cup (IF item.type = "scene" THEN d.fields \cap {"director"} ELSE {})
    \cup (IF item.type = "image" THEN d.fields \cap {"photographer"} ELSE {})

\* fields_updated of update_item_metadata
FieldsUpdated(updates, P) ==
    (IF "tag_ids" \in updates THEN {"tags"} ELSE {})
    \cup {k \in updates \ {"tag_ids"} : k = "performer_ids" => P.ids # <<>>}

\* (mutant) the table is started afresh with the key counted
AddCount_Restart(f, k) == k :> 1

\* d[k] = d.get(k, 0) + 1
AddCount(f, k) ==
    IF k \in DOMAIN f THEN [f EXCEPT ![k] = @ + 1] ELSE f @@ (k :> 1)

RECURSIVE AddCounts(_, _)
AddCounts(f, S) ==
    IF S = {} THEN f
    ELSE LET k == CHOOSE x \in S : TRUE IN AddCounts(AddCount(f, k), S \ {k})

\* (mutant) a skipped item is counted as failed too
CountSkipped_AsFailedToo(st) ==
    [st EXCEPT !.skipped = @ + 1, !.failed = @ + 1]

\* elif result.skipped: self.stats.skipped += 1
CountSkipped(st) == [st EXCEPT !.skipped = @ + 1]

\* The stats update scrape_all makes after scrape_item returned r.
UpdateStats(st, r) ==
    IF r.success THEN
        [st EXCEPT !.successful = @ + 1,
                   !.tags_created = @ + Len(r.tags_created),
                   !.tags_added = @ + Len(r.tags_added),
                   !.performers_created = @ + Len(r.performers_created),
                   !.performers_added = @ + Len(r.performers_added),
                   !.studios_created =
                        @ + (IF r.studio_created # "None" THEN 1 ELSE 0),
                   !.studios_added =
                        @ + (IF r.studio_added # "None" THEN 1 ELSE 0),
                   !.fallback_used_count =
                        @ + (IF r.fallback_used THEN 1 ELSE 0),
                   !.metadata_fields_updated = AddCounts(@, r.metadata_updated),
                   !.scraper_success_count = AddCount(@, r.scraper_name)]
    ELSE IF r.skipped THEN CountSkipped(st)
    ELSE [st EXCEPT !.failed = @ + 1,
                    !.scraper_failure_count = AddCount(@, r.scraper_name)]

\* scrape_item returned r: results.append(result) and the stats update.
ItemDone(r, tr, st) ==
    /\ results' = Append(results, r)
    /\ triedLog' = Append(triedLog, tr)
    /\ stats' = UpdateStats(st, r)
    /\ result' = NoResult
    /\ tried' = <<>>
    /\ scraper_index' = 0
    /\ bulkPc' = "items"

DEFAULT_RATE_LIMIT == 2
ScrapeDuration == 1

\* The limiter of a batch run: BulkScraper(rate_limit=DEFAULT_RATE_LIMIT),
\* last_request_time = 0.0, the clock far from 0.
InitBulkRate ==
    /\ limiter = "bulk"
    /\ rate_limit = DEFAULT_RATE_LIMIT
    /\ now = DEFAULT_RATE_LIMIT + 1
    /\ last_request_time = 0
    /\ prev_request_time = 0
    /\ calls = 0
    /\ slept = 0
    /\ last_sleep = 0

\* self._wait_for_rate_limit() in the strategy loop, and the time the
\* scrape after it takes.
BulkWait ==
    /\ calls' = calls + 1
    /\ IF ReturnsEarly(limiter, rate_limit)
       THEN /\ last_sleep' = 0
            /\ now' = now + ScrapeDuration
            /\ UNCHANGED <<last_request_time, prev_request_time, slept>>
       ELSE LET s == SleepTime(rate_limit, now, last_request_time) IN
            /\ slept' = slept + s
            /\ last_sleep' = s
            /\ prev_request_time' = last_request_time
            /\ last_request_time' = now + s
            /\ now' = now + s + ScrapeDuration
    /\ UNCHANGED <<limiter, rate_limit>>

\* What one strategy of an item came to, and which scraper it was.
Tried(sc, what) == [scraper |-> sc.id, outcome |-> what]

\* (mutant) the skip check comes after the rate-limit wait
SkipReturn_AfterWait(r, sk, st) ==
    /\ ItemDone([r EXCEPT !.skipped = TRUE, !.skip_reason = sk.reason],
                <<>>, st)
    /\ BulkWait

\* if should_skip: ... return result
SkipReturn(r, sk, st) ==
    /\ ItemDone([r EXCEPT !.skipped = TRUE, !.skip_reason = sk.reason],
                <<>>, st)
    /\ UNCHANGED rateVars

\* scrapers if self.try_all_scrapers else [primary_scraper]
scrapers_to_try ==
    IF options.try_all_scrapers THEN ordered_scrapers
    ELSE <<ordered_scrapers[1]>>

\* The head of scrape_item for the next item of the page: the skip check.
scrape_item_begin ==
    /\ run \in {"bulk", "main"}
    /\ bulkPc = "items"
    /\ items_fetched < Len(items)
    /\ items_fetched' = items_fetched + 1
    /\ LET i == items_fetched + 1
           r == ScrapeResult(i, ordered_scrapers[1].name)
           sk == should_skip_item(options, items[i])
           st == [stats EXCEPT !.processed = @ + 1]
       IN IF sk.skip
          THEN SkipReturn(r, sk, st)
          ELSE /\ result' = r
               /\ tried' = <<>>
               /\ scraper_index' = 1
               /\ bulkPc' = "strategies"
               /\ stats' = st
               /\ UNCHANGED <<results, triedLog>>
               /\ UNCHANGED rateVars
    /\ UNCHANGED <<run, options, items, item_store, mutations, bulkWaits>>
    /\ UNCHANGED <<htmlVars, orderVars, syncVars, mainVars, textVars>>

\* (mutant) the flag stays at its default
FallbackUsed_Never(sc) == FALSE

\* result.fallback_used = (scraper != primary_scraper)
FallbackUsed(sc) == sc # ordered_scrapers[1]

\* (mutant) the loop gives up after any strategy
NextStrategy_GiveUp(r, tr) == ItemDone(r, tr, stats)

\* continue: the next strategy, or the end of the loop and return result
NextStrategy(r, tr) ==
    IF scraper_index = Len(scrapers_to_try)
    THEN ItemDone(r, tr, stats)
    ELSE /\ result' = r
         /\ tried' = tr
         /\ scraper_index' = scraper_index + 1
         /\ UNCHANGED <<results, triedLog, stats, bulkPc>>

\* if scraper == scrapers_to_try[-1]: result.error = msg
ErrorIfLast(r, sc, msg) ==
    IF sc = scrapers_to_try[Len(scrapers_to_try)]
    THEN [r EXCEPT !.error = msg] ELSE r

\* (mutant) a rejected update is reported as a skip
UpdateFailed_AsSkip(r) ==
    [r EXCEPT !.skipped = TRUE, !.skip_reason = "Failed to update item"]

\* else: result.error = "Failed to update item"
UpdateFailed(r) == [r EXCEPT !.error = "Failed to update item"]

\* One iteration of the strategy loop of scrape_item: the rate-limit wait,
\* the scrape (answered by kind and d, re-sent `retries` times by the
\* session), the creation of what the data names (answered by f) and the
\* update (accepted or not).
scrape_item_try(kind, d, f, accepted, retries) ==
    /\ run \in {"bulk", "main"}
    /\ bulkPc = "strategies"
    /\ bulkWaits' = bulkWaits \cup WaitsSeenByAttempts(retries)
    /\ LET i == items_fetched
           item == items[i]
           sc == scrapers_to_try[scraper_index]
           dry == options.dry_run
           r1 == [result EXCEPT !.scraper_name = sc.name, !.scraped = TRUE,
                                !.scraped_data = d,
                                !.fallback_used = FallbackUsed(sc)]
           T == ProcessEntities(d.tags, f, dry, "tagCreate", NothingProcessed)
           P == ProcessEntities(d.performers, f, dry, "performerCreate",
                                NothingProcessed)
           S == ProcessEntities(d.studio, f, dry, "studioCreate",
                                NothingProcessed)
           r2 == [r1 EXCEPT !.tags_created = @ \o T.created,
                            !.tags_added = @ \o T.added]
           r3 == [r2 EXCEPT
                    !.performers_created = @ \o P.created,
                    !.performers_added = @ \o P.added,
                    !.studio_created =
                        IF S.created # <<>> THEN S.created[1] ELSE @,
                    !.studio_added = IF S.added # <<>> THEN S.added[1] ELSE @]
           updates == Updates(d, item, dry, T, P, S)
           created == T.sent \o P.sent \o S.sent
           update == Mutation("update", "None", i, accepted)
           stored == [tag_ids |->
                         IF "tag_ids" \in updates
                         THEN item.tags \cup Range(T.ids)
                         ELSE item_store[i].tag_ids,
                      performer_ids |->
                         IF "performer_ids" \in updates
                         THEN Range(P.ids)
                         ELSE item_store[i].performer_ids,
                      written |-> item_store[i].written
                                    \cup FieldsUpdated(updates, P)]
       IN
       IF kind = "raise" THEN
            /\ NextStrategy(ErrorIfLast(result, sc, "exception"),
                            Append(tried, Tried(sc, "raise")))
            /\ UNCHANGED <<item_store, mutations>>
       ELSE IF kind = "none" THEN
            /\ NextStrategy(
                  ErrorIfLast(result, sc, "No data returned from any scraper"),
                  Append(tried, Tried(sc, "none")))
            /\ UNCHANGED <<item_store, mutations>>
       ELSE IF ~has_useful_data(d) THEN
            /\ NextStrategy(
                  IF sc = scrapers_to_try[Len(scrapers_to_try)]
                  THEN [result EXCEPT
                          !.skipped = TRUE,
                          !.skip_reason = "no useful data from any scraper"]
                  ELSE result,
                  Append(tried, Tried(sc, "useless")))
            /\ UNCHANGED <<item_store, mutations>>
       ELSE IF T.raised THEN
            /\ NextStrategy(ErrorIfLast(r2, sc, "exception"),
                            Append(tried, Tried(sc, "raise_in_data")))
            /\ mutations' = mutations \o T.sent
            /\ UNCHANGED item_store
       ELSE IF ~SendsMutations(dry) THEN
            /\ ItemDone([r3 EXCEPT !.success = TRUE,
                                   !.metadata_updated = updates],
                        Append(tried, Tried(sc, "dry_run")), stats)
            /\ UNCHANGED <<item_store, mutations>>
       ELSE IF updates = {} THEN
            /\ NextStrategy(
                  ErrorIfLast(r3, sc, "No valid metadata from any scraper"),
                  Append(tried, Tried(sc, "no_updates")))
            /\ mutations' = mutations \o created
            /\ UNCHANGED item_store
       ELSE IF accepted THEN
            /\ ItemDone([r3 EXCEPT
                           !.success = TRUE,
                           !.metadata_updated = FieldsUpdated(updates, P)],
                        Append(tried, Tried(sc, "updated")), stats)
            /\ mutations' = mutations \o created \o <<update>>
            /\ item_store' = [item_store EXCEPT ![i] = stored]
       ELSE
            /\ ItemDone(UpdateFailed(r3),
                        Append(tried, Tried(sc, "rejected")), stats)
            /\ mutations' = mutations \o created \o <<update>>
            /\ UNCHANGED item_store
    /\ BulkWait
    /\ UNCHANGED <<run, options, items, items_fetched>>
    /\ UNCHANGED <<htmlVars, orderVars, syncVars, mainVars, textVars>>

\* The page is used up: scrape_all returns results.
scrape_all_return ==
    /\ run \in {"bulk", "main"}
    /\ bulkPc = "items"
    /\ items_fetched = Len(items)
    /\ bulkPc' = "done"
    /\ UNCHANGED <<run, options, items, items_fetched, scraper_index, result,
                   tried, results, triedLog, stats, item_store, mutations,
                   bulkWaits>>
    /\ UNCHANGED <<htmlVars, rateVars, orderVars, syncVars, mainVars, textVars>>

NextBulk ==
    \/ scrape_all_order
    \/ scrape_item_begin
    \/ \E kind \in ScrapeKinds, d \in ScrapedDataPool, accepted \in BOOLEAN,
          retries \in 0..MaxAdapterRetries :
          \E f \in CreationOutcomes(d) :
              scrape_item_try(kind, d, f, accepted, retries)
    \/ scrape_all_return

(***************************************************************************)
(* bulk_scraper.py : main, which runs scrape_all for images, for scenes or *)
(* for both, one batch after the other on the same BulkScraper.            *)
(***************************************************************************)
SceneItem == StashItem("scene", TRUE, {}, FALSE, NoDate)

MainImageLists == { <<>>, <<PlainItem, TaggedItem>> }
MainSceneLists == { <<SceneItem>> }

MainOptions ==
    { BulkOptionsRecord(FALSE, FALSE, FALSE, FALSE, {}, NoDate, NoDate),
      BulkOptionsRecord(TRUE, FALSE, FALSE, FALSE, {}, NoDate, NoDate) }

MainScrapers ==
    << [id |-> 1, name |-> <<"A","u","t","o">>,
        supported_scrapes |-> {"FRAGMENT", "URL"}],
       [id |-> 2, name |-> <<"r","3","4">>,
        supported_scrapes |-> {"FRAGMENT", "URL"}] >>

InitMain ==
    /\ item_type \in {"image", "scene", "both"}
    /\ batch = IF item_type = "scene" THEN "scene" ELSE "image"
    /\ all_results = <<>>
    /\ bulkPc = "order"
    /\ orderPc = "start"
    /\ all_scrapers = MainScrapers
    /\ scraper_name = <<>>
    /\ ordered_scrapers = <<>>
    /\ options \in MainOptions
    /\ items \in IF batch = "image" THEN MainImageLists ELSE MainSceneLists
    /\ items_fetched = 0
    /\ scraper_index = 0
    /\ result = NoResult
    /\ tried = <<>>
    /\ results = <<>>
    /\ triedLog = <<>>
    /\ stats = ProgressStats
    /\ item_store = FreshStore(items)
    /\ mutations = <<>>
    /\ bulkWaits = {}

\* The image batch is over: all_results.extend(results), then, the type
\* being "both", scraper.stats = ProgressStats() and the scene batch starts,
\* scrape_all("scene") with what find_scenes will hand over.
main_next_batch ==
    /\ run = "main"
    /\ bulkPc = "done"
    /\ batch = "image"
    /\ item_type = "both"
    /\ all_results' = all_results \o results
    /\ stats' = ProgressStats
    /\ batch' = "scene"
    /\ bulkPc' = "order"
    /\ orderPc' = "start"
    /\ ordered_scrapers' = <<>>
    /\ items' \in MainSceneLists
    /\ items_fetched' = 0
    /\ results' = <<>>
    /\ triedLog' = <<>>
    /\ item_store' = FreshStore(items')
    /\ mutations' = <<>>
    /\ UNCHANGED <<run, item_type, options, scraper_index, result, tried,
                   bulkWaits, all_scrapers, scraper_name>>
    /\ UNCHANGED <<htmlVars, rateVars, syncVars, textVars>>

\* The last batch is over: all_results.extend(results), print_summary.
main_finish ==
    /\ run = "main"
    /\ bulkPc = "done"
    /\ \/ batch = "scene"
       \/ batch = "image" /\ item_type = "image"
    /\ all_results' = all_results \o results
    /\ batch' = "finished"
    /\ UNCHANGED <<run, item_type, bulkVars>>
    /\ UNCHANGED <<htmlVars, rateVars, orderVars, syncVars, textVars>>

NextMain == NextBulk \/ main_next_batch \/ main_finish

(***************************************************************************)
(* rule34_stash_tagger.py : Rule34WikiScraper.scrape_tag and TagSyncer     *)
(***************************************************************************)
\* What the search request can end with: the status the session hands back
\* (for 200, whether _find_wiki_id resolves an id), the two exceptions
\* scrape_tag catches, and any other exception raised while the response
\* is parsed.
SearchOutcomes ==
    {"429", "5xx", "other_status", "200_found", "200_no_match", "timeout",
     "request_error", "unexpected"}

\* What the detail request can end with (for 200, whether
\* _extract_description returns a description).
DetailOutcomes ==
    {"200_description", "200_no_description", "not_200", "timeout",
     "request_error", "unexpected"}

WikiResult(ok, desc, err, reqs, crash) ==
    [success |-> ok, description |-> desc, error |-> err, requests |-> reqs,
     crashed |-> crash]

\* (mutant) the detail page is asked for whatever the search gave
scrape_tag_AlwaysDetail(e) ==
    CASE e.detail = "200_description" ->
            WikiResult(TRUE, TRUE, "None", <<"search", "detail">>, FALSE)
      [] OTHER ->
            WikiResult(FALSE, FALSE, "No description found on wiki page",
                       <<"search", "detail">>, FALSE)

\* Rule34WikiScraper.scrape_tag
scrape_tag(e) ==
    CASE e.search = "429" ->
            WikiResult(FALSE, FALSE, "Rate limited", <<"search">>, FALSE)
      [] e.search = "5xx" ->
            WikiResult(FALSE, FALSE, "Server error", <<"search">>, FALSE)
      [] e.search = "other_status" ->
            WikiResult(FALSE, FALSE, "HTTP status", <<"search">>, FALSE)
      [] e.search = "timeout" ->
            WikiResult(FALSE, FALSE, "Request timeout", <<"search">>, FALSE)
      [] e.search = "request_error" ->
            WikiResult(FALSE, FALSE, "request error", <<"search">>, FALSE)
      [] e.search = "unexpected" ->
            WikiResult(FALSE, FALSE, "None", <<"search">>, TRUE)
      [] e.search = "200_no_match" ->
            WikiResult(FALSE, FALSE, "No wiki page found for tag",
                       <<"search">>, FALSE)
      [] OTHER ->
            CASE e.detail = "200_description" ->
                    WikiResult(TRUE, TRUE, "None", <<"search", "detail">>, FALSE)
              [] e.detail = "200_no_description" ->
                    WikiResult(FALSE, FALSE, "No description found on wiki page",
                               <<"search", "detail">>, FALSE)
              [] e.detail = "not_200" ->
                    WikiResult(FALSE, FALSE, "HTTP status fetching wiki page",
                               <<"search", "detail">>, FALSE)
              [] e.detail = "timeout" ->
                    WikiResult(FALSE, FALSE, "Request timeout",
                               <<"search", "detail">>, FALSE)
              [] e.detail = "request_error" ->
                    WikiResult(FALSE, FALSE, "request error",
                               <<"search", "detail">>, FALSE)
              [] OTHER ->
                    WikiResult(FALSE, FALSE, "None", <<"search", "detail">>, TRUE)

\* (mutant) a description the sync wrote is not taken for a description
has_description_OnlyOthers(tag) == tag.description = "text"

\* StashTag.has_description: bool(description and description.strip()).
\* "wiki" is a description the sync wrote: it passed _is_valid_description,
\* so it is not blank.
has_description(tag) == tag.description \in {"text", "wiki"}

TagDescriptions == {"none", "blank", "text"}

\* The batches sync_tags is run on: every list of one or two tags.
TagListLengths == {1, 2}

StashTagLists ==
    UNION { { [i \in 1..n |-> [id |-> i, description |-> f[i]]]
              : f \in [1..n -> TagDescriptions] } : n \in TagListLengths }

SyncEnvs ==
    [search : SearchOutcomes, detail : DetailOutcomes, update : BOOLEAN,
     retries : 0..MaxAdapterRetries]

UpdateResult(upd, skp, reason, err) ==
    [updated |-> upd, skipped |-> skp, skip_reason |-> reason, error |-> err]

Bump(st, k) == [st EXCEPT ![k] = @ + 1]

WikiLogEntry(w, e) ==
    [requests |-> w.requests, error |-> w.error, search |-> e.search]

NotScraped == [requests |-> <<>>, error |-> "None", search |-> "none"]

InitSync ==
    /\ syncPc = "run"
    /\ stash_tags \in StashTagLists
    /\ skip_existing \in BOOLEAN
    /\ force \in BOOLEAN
    /\ sync_dry_run \in BOOLEAN
    /\ syncResults = <<>>
    /\ syncStats = [total |-> 0, updated |-> 0, skipped |-> 0,
                    not_found |-> 0, errors |-> 0]
    /\ tagDescription = [i \in DOMAIN stash_tags |-> stash_tags[i].description]
    /\ tagUpdateCalls = <<>>
    /\ wikiLog = <<>>
    /\ wikiWaits = {}

IdleSync ==
    /\ syncPc = "off"
    /\ stash_tags = <<>>
    /\ skip_existing = TRUE
    /\ force = FALSE
    /\ sync_dry_run = FALSE
    /\ syncResults = <<>>
    /\ syncStats = [total |-> 0, updated |-> 0, skipped |-> 0,
                    not_found |-> 0, errors |-> 0]
    /\ tagDescription = <<>>
    /\ tagUpdateCalls = <<>>
    /\ wikiLog = <<>>
    /\ wikiWaits = {}

\* (mutant) a failed scrape is written to the store as a placeholder
ScrapeFailed_Never(w) == FALSE

\* if not wiki_result.success or not wiki_result.description
ScrapeFailed(w) == ~w.success \/ ~w.description

\* One iteration of sync_tags: sync_tag for the next tag, answered by e.
sync_tag(e) ==
    /\ run \in {"sync", "resync", "rerun"}
    /\ syncPc = "run"
    /\ Len(syncResults) < Len(stash_tags)
    /\ LET i == Len(syncResults) + 1
           tag == stash_tags[i]
           w == scrape_tag(e)
           total == Bump(syncStats, "total")
       IN
       IF skip_existing /\ has_description(tag) /\ ~force
       THEN /\ syncStats' = Bump(total, "skipped")
            /\ syncResults' = Append(syncResults,
                   UpdateResult(FALSE, TRUE, "Already has description", "None"))
            /\ wikiLog' = Append(wikiLog, NotScraped)
            /\ UNCHANGED <<syncPc, tagDescription, tagUpdateCalls, wikiWaits>>
       ELSE
         /\ wikiWaits' = wikiWaits \cup WaitsSeenByAttempts(e.retries)
         /\ IF w.crashed
            THEN /\ syncPc' = "crashed"
                 /\ syncStats' = total
                 /\ wikiLog' = Append(wikiLog, WikiLogEntry(w, e))
                 /\ UNCHANGED <<syncResults, tagDescription, tagUpdateCalls>>
            ELSE
              /\ wikiLog' = Append(wikiLog, WikiLogEntry(w, e))
              /\ UNCHANGED syncPc
              /\ IF ScrapeFailed(w)
                 THEN /\ syncStats' = Bump(total, "not_found")
                      /\ syncResults' = Append(syncResults,
                             UpdateResult(FALSE, TRUE,
                                 IF w.error # "None" THEN w.error
                                 ELSE "No description found", "None"))
                      /\ UNCHANGED <<tagDescription, tagUpdateCalls>>
                 ELSE IF sync_dry_run
                 THEN /\ syncStats' = Bump(total, "updated")
                      /\ syncResults' = Append(syncResults,
                             UpdateResult(TRUE, FALSE, "None", "None"))
                      /\ UNCHANGED <<tagDescription, tagUpdateCalls>>
                 ELSE /\ tagUpdateCalls' = Append(tagUpdateCalls, i)
                      /\ IF e.update
                         THEN /\ syncStats' = Bump(total, "updated")
                              /\ tagDescription' =
                                    [tagDescription EXCEPT ![i] = "wiki"]
                              /\ syncResults' = Append(syncResults,
                                    UpdateResult(TRUE, FALSE, "None", "None"))
                         ELSE /\ syncStats' = Bump(total, "errors")
                              /\ UNCHANGED tagDescription
                              /\ syncResults' = Append(syncResults,
                                    UpdateResult(FALSE, FALSE, "None",
                                                 "Failed to update in Stash"))
    /\ UNCHANGED <<run, stash_tags, skip_existing, force, sync_dry_run>>
    /\ UNCHANGED <<htmlVars, rateVars, orderVars, bulkVars, mainVars, textVars>>

\* sync_tags returns its results
sync_tags_return ==
    /\ run \in {"sync", "resync", "rerun"}
    /\ syncPc = "run"
    /\ Len(syncResults) = Len(stash_tags)
    /\ syncPc' = "done"
    /\ UNCHANGED <<run, stash_tags, skip_existing, force, sync_dry_run,
                   syncResults, syncStats, tagDescription, tagUpdateCalls,
                   wikiLog, wikiWaits>>
    /\ UNCHANGED <<htmlVars, rateVars, orderVars, bulkVars, mainVars, textVars>>

NextSync ==
    \/ \E e \in SyncEnvs : sync_tag(e)
    \/ sync_tags_return

(***************************************************************************)
(* rule34_stash_tagger.py : main run a second time on the same store,      *)
(* after the first run ended, crashed or was interrupted between two tags. *)
(***************************************************************************)
ResyncTagLists ==
    { [i \in 1..2 |-> [id |-> i, description |-> d[i]]]
        : d \in {<<"none", "blank">>, <<"text", "none">>} }

InitResync ==
    /\ syncPc = "run"
    /\ stash_tags \in ResyncTagLists
    /\ skip_existing = TRUE
    /\ force \in BOOLEAN
    /\ sync_dry_run \in BOOLEAN
    /\ syncResults = <<>>
    /\ syncStats = [total |-> 0, updated |-> 0, skipped |-> 0,
                    not_found |-> 0, errors |-> 0]
    /\ tagDescription = [i \in DOMAIN stash_tags |-> stash_tags[i].description]
    /\ tagUpdateCalls = <<>>
    /\ wikiLog = <<>>
    /\ wikiWaits = {}

\* main is started again: get_all_tags reads the tags as the store has them
\* now, and a new TagSyncer is made from the arguments of this run.
sync_rerun ==
    /\ run = "resync"
    /\ syncPc \in {"run", "done", "crashed"}
    /\ run' = "rerun"
    /\ syncPc' = "run"
    /\ stash_tags' = [i \in DOMAIN stash_tags |->
                         [id |-> i, description |-> tagDescription[i]]]
    /\ skip_existing' \in BOOLEAN
    /\ force' \in BOOLEAN
    /\ sync_dry_run' \in BOOLEAN
    /\ syncResults' = <<>>
    /\ syncStats' = [total |-> 0, updated |-> 0, skipped |-> 0,
                     not_found |-> 0, errors |-> 0]
    /\ tagUpdateCalls' = <<>>
    /\ wikiLog' = <<>>
    /\ wikiWaits' = {}
    /\ UNCHANGED tagDescription
    /\ UNCHANGED <<htmlVars, rateVars, orderVars, bulkVars, mainVars, textVars>>

NextResync == NextSync \/ sync_rerun

(***************************************************************************)
(* rule34_stash_tagger.py : Rule34WikiScraper._find_wiki_id.  A text is    *)
(* the sequence of its characters.                                         *)
(***************************************************************************)
RECURSIVE LStrip(_)
LStrip(t) == IF t # <<>> /\ Head(t) = " " THEN LStrip(Tail(t)) ELSE t

RECURSIVE RStrip(_)
RStrip(t) ==
    IF t # <<>> /\ t[Len(t)] = " " THEN RStrip(SubSeq(t, 1, Len(t) - 1))
    ELSE t

\* str.strip()
Strip(t) == RStrip(LStrip(t))

\* str.replace(" ", "_")
SpacesToUnderscores(t) ==
    [i \in 1..Len(t) |-> IF t[i] = " " THEN "_" ELSE t[i]]

\* link.get_text().strip().lower().replace(" ", "_"), and
\* _normalize_tag_name
NormalizeText(t) == SpacesToUnderscores(Lower(Strip(t)))

NoId == 0

\* The texts a link of the search page can show, and the tag names asked for.
LinkTexts ==
    { <<>>, <<"a">>, <<"A", " ", "t">>, <<" ", "a", "_", "t", " ">>, <<"b">> }

TagNames == { <<"a">>, <<"A", " ", "T">>, <<"a", "t">> }

\* A link: its text, whether its href is one of a wiki view page
\* ("page=wiki", "s=view" and "id=" in href) and whether digits follow "id=".
LinkShapes == [text : LinkTexts, wiki : BOOLEAN, digits : BOOLEAN]

\* The lists of links of a page; the id in the href of the k-th link, when
\* it has one, is k.
LinkLists ==
    UNION { { [k \in 1..n |-> [text |-> f[k].text, wiki |-> f[k].wiki,
                               id |-> IF f[k].digits THEN k ELSE NoId]]
              : f \in [1..n -> LinkShapes] } : n \in 0..MaxLinks }

InitFind ==
    /\ findPc = "call"
    /\ links \in LinkLists
    /\ normalized_tag \in {NormalizeText(t) : t \in TagNames}
    /\ wiki_id = NoId

IdleFind ==
    /\ findPc = "off"
    /\ links = <<>>
    /\ normalized_tag = <<>>
    /\ wiki_id = NoId


\* if link_text == normalized_tag
ExactMatch(link_text, tag) == link_text = tag

\* if normalized_tag in link_text or link_text in normalized_tag
PartialMatch(link_text, tag) ==
    Contains(link_text, tag) \/ Contains(tag, link_text)

\* One of the two for loops over soup.find_all("a", href=True), from the
\* k-th link on: the id of the first wiki view link whose text matches and
\* whose href gives an id.
RECURSIVE FindLoop(_, _, _, _)
FindLoop(ls, tag, k, exactly) ==
    IF k > Len(ls) THEN NoId
    ELSE IF /\ ls[k].wiki
            /\ IF exactly THEN ExactMatch(NormalizeText(ls[k].text), tag)
               ELSE PartialMatch(NormalizeText(ls[k].text), tag)
            /\ ls[k].id # NoId
         THEN ls[k].id
    ELSE FindLoop(ls, tag, k + 1, exactly)

\* (mutant) one loop, which takes the first link that matches either way
find_wiki_id_OneLoop(ls, tag) == FindLoop(ls, tag, 1, FALSE)

\* _find_wiki_id
find_wiki_id(ls, tag) ==
    LET exact == FindLoop(ls, tag, 1, TRUE) IN
    IF exact # NoId THEN exact ELSE FindLoop(ls, tag, 1, FALSE)

find_wiki_id_call ==
    /\ run = "find"
    /\ findPc = "call"
    /\ wiki_id' = find_wiki_id(links, normalized_tag)
    /\ findPc' = "returned"
    /\ UNCHANGED <<run, links, normalized_tag, extractVars, cleanVars, dumpVars>>
    /\ UNCHANGED <<apiVars, parseVars, entryVars, pageVars>>
    /\ UNCHANGED <<htmlVars, rateVars, orderVars, syncVars, bulkVars, mainVars>>

NextFind == find_wiki_id_call

(***************************************************************************)
(* rule34_stash_tagger.py : Rule34WikiScraper._extract_description with    *)
(* _score_description_candidate, _clean_description and                    *)
(* _is_valid_description.  The text of an element is a sequence of blocks  *)
(* joined by line breaks; a block is one of the texts below, known by its  *)
(* name, with its number of characters, of words (str.split) and of        *)
(* alphabetic characters and with what the tests of the code find in it:   *)
(*   Prose    "Alice is a character from the Wonder series."               *)
(*   Short    "Nothing whatsoever available hereabouts."                   *)
(*   Brief    "Nothing to see here folks."                                 *)
(*   Numbers  "1234 5678 9012 3456 7890 1234. 5678"                        *)
(*   Cookie   "Reset cookie / GDPR consent"                                *)
(*   Locked   "This entry is not locked and you can edit it as you see     *)
(*            fit."                                                        *)
(*   Header   "Now Viewing: alice Tag type: Character"                     *)
(*   Recent   "Recent Changes"                                             *)
(***************************************************************************)
Block(c, w, a, dot, kw) == [chars |-> c, words |-> w, alpha |-> a,
                            sentence |-> dot, keyword |-> kw]

Blocks ==
    [Prose   |-> Block(44, 8, 36, TRUE, TRUE),
     Short   |-> Block(40, 4, 36, TRUE, FALSE),
     Brief   |-> Block(26, 5, 21, TRUE, FALSE),
     Numbers |-> Block(35, 7, 0, TRUE, FALSE),
     Cookie  |-> Block(27, 5, 22, FALSE, FALSE),
     Locked  |-> Block(60, 14, 46, TRUE, FALSE),
     Header  |-> Block(38, 6, 31, FALSE, FALSE),
     Recent  |-> Block(14, 2, 13, FALSE, FALSE)]

RECURSIVE SumOver(_, _)
SumOver(text, field) ==
    IF text = <<>> THEN 0
    ELSE Blocks[Head(text)][field] + SumOver(Tail(text), field)

\* len(text): the blocks and one separator between two of them
TextLen(text) ==
    IF text = <<>> THEN 0 ELSE SumOver(text, "chars") + Len(text) - 1

\* len(text.split())
WordCount(text) == SumOver(text, "words")

\* sum(1 for c in text if c.isalpha())
AlphaCount(text) == SumOver(text, "alpha")

Has(text, b) == \E k \in DOMAIN text : text[k] = b

\* _score_description_candidate
score_description_candidate(text) ==
    (IF Has(text, "Header") THEN 20 ELSE 0)
    + (IF \E k \in DOMAIN text : Blocks[text[k]].keyword THEN 15 ELSE 0)
    + (IF \E k \in DOMAIN text : Blocks[text[k]].sentence THEN 10 ELSE 0)
    + (IF 100 < TextLen(text) /\ TextLen(text) < 500 THEN 15
       ELSE IF 500 < TextLen(text) /\ TextLen(text) < 2000 THEN 10
       ELSE IF TextLen(text) > 2000 THEN 5 ELSE 0)
    - (IF Has(text, "Cookie") THEN 30 ELSE 0)
    - (IF Has(text, "Cookie") THEN 30 ELSE 0)
    - (IF Has(text, "Recent") THEN 20 ELSE 0)

\* What _clean_description takes out of a text made of these blocks: the
\* page header when the text begins with it, the lock notice and the cookie
\* block wherever they are.
Removed(text, k) ==
    \/ text[k] \in {"Locked", "Cookie"}
    \/ text[k] = "Header" /\ k = 1

RECURSIVE Keep(_, _)
Keep(text, k) ==
    IF k > Len(text) THEN <<>>
    ELSE (IF Removed(text, k) THEN <<>> ELSE <<text[k]>>) \o Keep(text, k + 1)

\* _clean_description
clean_description(text) == Keep(text, 1)

\* (mutant) the number of words is not looked at
is_valid_description_AnyWords(cleaned) ==
    /\ cleaned # <<>>
    /\ TextLen(cleaned) >= 20
    /\ AlphaCount(cleaned) * 2 >= TextLen(cleaned)
    /\ cleaned[1] \notin {"Locked", "Cookie", "Recent"}

\* _is_valid_description
is_valid_description(cleaned) ==
    /\ cleaned # <<>>
    /\ ~(TextLen(cleaned) < 20)
    /\ ~(WordCount(cleaned) < 5)
    /\ ~(AlphaCount(cleaned) * 2 < TextLen(cleaned))
    /\ cleaned[1] \notin {"Locked", "Cookie", "Recent"}

NoDescription == <<>>

\* The texts an element of the page can have.
ElementTexts ==
    { <<"Prose">>, <<"Header", "Prose", "Locked">>, <<"Header", "Numbers">>,
      <<"Recent", "Prose">>, <<"Cookie">>, <<"Short">>, <<"Brief">>,
      <<"Cookie", "Short">>, <<"Short", "Cookie">>, <<"Cookie", "Brief">> }

\* content_div.find_all("td")
CellLists ==
    UNION { [1..n -> ElementTexts] : n \in 0..MaxCells }

\* content_div.find_all("p")
ParagraphLists ==
    { <<>>, <<<<"Short">>>>, <<<<"Cookie", "Short">>>>, <<<<"Prose">>>>,
      <<<<"Brief">>>>, <<<<"Cookie", "Brief">>>>,
      <<<<"Short">>, <<"Header", "Prose", "Locked">>>> }

\* content_div.find_all("div"): for each, whether its id or class names a
\* part of the site chrome, and its text
Div(c, t) == [chrome |-> c, text |-> t]

DivLists ==
    { <<>>, <<Div(FALSE, <<"Short", "Cookie">>)>>,
      <<Div(FALSE, <<"Brief">>), Div(FALSE, <<"Brief", "Cookie">>)>>,
      <<Div(TRUE, <<"Prose">>)>>,
      <<Div(FALSE, <<"Prose">>), Div(FALSE, <<"Header", "Prose", "Locked">>)>>,
      <<Div(TRUE, <<"Prose">>), Div(FALSE, <<"Cookie">>),
        Div(FALSE, <<"Recent", "Prose">>)>> }

InitExtract ==
    /\ extractPc = "call"
    /\ soup \in [content_div : BOOLEAN, tds : CellLists,
                  ps : ParagraphLists, divs : DivLists]
    /\ description = NoDescription
    /\ passes = <<>>

IdleExtract ==
    /\ extractPc = "off"
    /\ soup = [content_div |-> FALSE, tds |-> <<>>, ps |-> <<>>,
               divs |-> <<>>]
    /\ description = NoDescription
    /\ passes = <<>>


\* The tests that let a cell be scored
CellIsScored(text) ==
    /\ ~(TextLen(text) < 30)
    /\ ~(Has(text, "Recent") /\ Len(text) < 5)

\* for td in content_div.find_all("td"), from the k-th cell on
RECURSIVE BestCell(_, _, _, _)
BestCell(tds, k, best_candidate, best_score) ==
    IF k > Len(tds) THEN [candidate |-> best_candidate, score |-> best_score]
    ELSE IF CellIsScored(tds[k])
            /\ score_description_candidate(tds[k]) > best_score
         THEN BestCell(tds, k + 1, tds[k], score_description_candidate(tds[k]))
    ELSE BestCell(tds, k + 1, best_candidate, best_score)

\* (mutant) the first scored cell that cleans to a valid text is offered
RECURSIVE CellPass_AnyValidCell(_)
CellPass_AnyValidCell(tds) ==
    IF tds = <<>> THEN NoDescription
    ELSE IF CellIsScored(Head(tds))
            /\ score_description_candidate(Head(tds)) >= 10
            /\ is_valid_description(clean_description(Head(tds)))
         THEN clean_description(Head(tds))
    ELSE CellPass_AnyValidCell(Tail(tds))

\* Method 1
CellPass(tds) ==
    LET best == BestCell(tds, 1, <<>>, 0) IN
    IF best.candidate # <<>> /\ best.score >= 10
          /\ is_valid_description(clean_description(best.candidate))
    THEN clean_description(best.candidate)
    ELSE NoDescription

\* Method 2: for p in content_div.find_all("p"), from the k-th on
RECURSIVE ParagraphPass(_, _)
ParagraphPass(ps, k) ==
    IF k > Len(ps) THEN NoDescription
    ELSE IF TextLen(ps[k]) > 50
            /\ is_valid_description(clean_description(ps[k]))
         THEN clean_description(ps[k])
    ELSE ParagraphPass(ps, k + 1)

\* Method 3: for div in content_div.find_all("div"), from the k-th on
RECURSIVE BlockPass(_, _)
BlockPass(divs, k) ==
    IF k > Len(divs) THEN NoDescription
    ELSE IF ~divs[k].chrome
            /\ 50 < TextLen(divs[k].text) /\ TextLen(divs[k].text) < 5000
            /\ is_valid_description(clean_description(divs[k].text))
         THEN clean_description(divs[k].text)
    ELSE BlockPass(divs, k + 1)

\* _extract_description
extract_description(sp) ==
    IF ~sp.content_div THEN [description |-> NoDescription, passes |-> <<>>]
    ELSE IF CellPass(sp.tds) # NoDescription
        THEN [description |-> CellPass(sp.tds), passes |-> <<"td">>]
    ELSE IF ParagraphPass(sp.ps, 1) # NoDescription
        THEN [description |-> ParagraphPass(sp.ps, 1), passes |-> <<"td", "p">>]
    ELSE [description |-> BlockPass(sp.divs, 1),
          passes |-> <<"td", "p", "div">>]

extract_description_call ==
    /\ run = "extract"
    /\ extractPc = "call"
    /\ description' = extract_description(soup).description
    /\ passes' = extract_description(soup).passes
    /\ extractPc' = "returned"
    /\ UNCHANGED <<run, soup, findVars, cleanVars, dumpVars>>
    /\ UNCHANGED <<apiVars, parseVars, entryVars, pageVars>>
    /\ UNCHANGED <<htmlVars, rateVars, orderVars, syncVars, bulkVars, mainVars>>

NextExtract == extract_description_call

(***************************************************************************)
(* rule34_stash_tagger.py : Rule34WikiScraper._clean_description on a text *)
(* of letters, full stops and spaces, character by character.  On such a   *)
(* text the substitutions that can match are the whitespace                *)
(* normalisations, strip, the merging of full stops, the removal of        *)
(* whitespace before punctuation and the trimming of both ends; every      *)
(* other pattern of the function needs a character that the text does not  *)
(* have.                                                                   *)
(***************************************************************************)
Alphabet == {"a", ".", " "}

Texts == UNION { [1..n -> Alphabet] : n \in 0..MaxTextLen }

\* re.sub(r'[ \t]+', ' ', text) and re.sub(r'\s+', ' ', text)
RECURSIVE CollapseSpaces(_)
CollapseSpaces(t) ==
    IF Len(t) < 2 THEN t
    ELSE IF t[1] = " " /\ t[2] = " " THEN CollapseSpaces(Tail(t))
    ELSE <<t[1]>> \o CollapseSpaces(Tail(t))

\* re.sub(r'\.{2,}', '.', text)
RECURSIVE CollapseStops(_)
CollapseStops(t) ==
    IF Len(t) < 2 THEN t
    ELSE IF t[1] = "." /\ t[2] = "." THEN CollapseStops(Tail(t))
    ELSE <<t[1]>> \o CollapseStops(Tail(t))

\* re.sub(r'\s+([.,;:!?])', r'\1', text)
RECURSIVE NoSpaceBeforeStop(_)
NoSpaceBeforeStop(t) ==
    IF t = <<>> THEN t
    ELSE IF t[1] = " " /\ LStrip(t) # <<>> /\ Head(LStrip(t)) = "."
        THEN NoSpaceBeforeStop(LStrip(t))
    ELSE <<t[1]>> \o NoSpaceBeforeStop(Tail(t))

\* _clean_description: lines 293 and 295, 446 and 447, 455, 456, 459 and
\* 460, 467
CleanChars(t) ==
    Strip(Strip(NoSpaceBeforeStop(CollapseStops(
        Strip(CollapseSpaces(Strip(CollapseSpaces(t))))))))

InitClean ==
    /\ cleanPc = "call"
    /\ raw_text \in Texts
    /\ once_cleaned = <<>>
    /\ twice_cleaned = <<>>

IdleClean ==
    /\ cleanPc = "off"
    /\ raw_text = <<>>
    /\ once_cleaned = <<>>
    /\ twice_cleaned = <<>>


clean_description_call ==
    /\ run = "clean"
    /\ cleanPc = "call"
    /\ once_cleaned' = CleanChars(raw_text)
    /\ cleanPc' = "once_cleaned"
    /\ UNCHANGED <<run, raw_text, twice_cleaned, findVars, extractVars, dumpVars>>
    /\ UNCHANGED <<apiVars, parseVars, entryVars, pageVars>>
    /\ UNCHANGED <<htmlVars, rateVars, orderVars, syncVars, bulkVars, mainVars>>

clean_description_again ==
    /\ run = "clean"
    /\ cleanPc = "once_cleaned"
    /\ twice_cleaned' = CleanChars(once_cleaned)
    /\ cleanPc' = "twice_cleaned"
    /\ UNCHANGED <<run, raw_text, once_cleaned, findVars, extractVars, dumpVars>>
    /\ UNCHANGED <<apiVars, parseVars, entryVars, pageVars>>
    /\ UNCHANGED <<htmlVars, rateVars, orderVars, syncVars, bulkVars, mainVars>>

NextClean == clean_description_call \/ clean_description_again

(***************************************************************************)
(* rule34xxx.py : main, parse_api_response and map_to_stashapp, followed   *)
(* by the look BulkScraper.scrape_item takes at what the scraper printed.  *)
(***************************************************************************)
\* The field of the input the file path is taken from, "none" if the input
\* has none of them
InputFields == {"files", "path", "url", "title", "none"}

\* Path(file_path).stem: only hexadecimal characters, some, or none
Stems == {"hex", "mixed", "nohex"}

\* extract_md5_from_path: the hexadecimal characters of the stem
extract_md5_from_path(stem) ==
    CASE stem = "hex" -> "md5" [] stem = "mixed" -> "md5part" [] OTHER -> ""

\* A <post> element by the attributes it carries
Post(i, t, r, sc) == [id |-> i, tags |-> t, rating |-> r, score |-> sc]

BarePost == Post("", "", "", "")
FullPost == Post("12345", "character:c artist:a general", "s", "10")
OnlyIdPost == Post("12345", "", "", "")

\* What query_rule34_api returns: None after a failed request, an empty
\* body, text that is not XML, a <posts> element without a post, or one
\* with a post
Answer(k, p) == [kind |-> k, first |-> p]

XmlResponses ==
    {Answer(k, BarePost) : k \in {"failed", "empty", "junk", "no_posts"}}
      \cup {Answer("posts", p) : p \in {BarePost, FullPost, OnlyIdPost}}

\* parse_api_response: None when ET.fromstring raises and when there is no
\* post, the first post's attributes otherwise
parse_api_response(x) ==
    [is_none |-> x.kind # "posts", post_data |-> x.first]

\* map_to_stashapp, by the fields of the result
map_to_stashapp(post, md5) ==
    (IF post.id # "" \/ md5 # "" THEN {"url"} ELSE {})
      \cup (IF post.tags # "" THEN {"performers", "studio"} ELSE {})
      \cup (IF post.tags # "" \/ post.rating # "" THEN {"tags"} ELSE {})
      \cup (IF post.score # "" THEN {"details"} ELSE {})

\* main: the fields of the object it prints
main_prints(inp) ==
    IF ~inp.credentials THEN {}
    ELSE IF inp.field = "none" THEN {}
    ELSE IF extract_md5_from_path(inp.stem) = "" THEN {}
    ELSE IF inp.xml.kind \in {"failed", "empty"} THEN {}
    ELSE IF parse_api_response(inp.xml).is_none THEN {"url"}
    ELSE map_to_stashapp(parse_api_response(inp.xml).post_data,
                         extract_md5_from_path(inp.stem))

InitApi ==
    /\ apiPc = "call"
    /\ api_input \in [credentials : BOOLEAN, field : InputFields,
                      stem : Stems, xml : XmlResponses]
    /\ printed = {}
    /\ scraped_data = NoData
    /\ useful = FALSE

IdleApi ==
    /\ apiPc = "off"
    /\ api_input = [credentials |-> FALSE, field |-> "none",
                    stem |-> "nohex", xml |-> Answer("failed", BarePost)]
    /\ printed = {}
    /\ scraped_data = NoData
    /\ useful = FALSE

api_main ==
    /\ run = "api"
    /\ apiPc = "call"
    /\ printed' = main_prints(api_input)
    /\ apiPc' = "printed"
    /\ UNCHANGED <<run, api_input, scraped_data, useful>>
    /\ UNCHANGED <<findVars, extractVars, cleanVars, dumpVars, parseVars,
                   entryVars, pageVars>>
    /\ UNCHANGED <<htmlVars, rateVars, orderVars, syncVars, bulkVars, mainVars>>

\* StashClient.scrape_item: the answer of scrapeSingleImage for what the
\* scraper printed.  The query asks for urls; whether Stash fills it from
\* the url the scraper printed is Stash's business, so both are possible.
stash_scrape_item(url_kept) ==
    /\ run = "api"
    /\ apiPc = "printed"
    /\ scraped_data' =
          ScrapedData(
            IF "tags" \in printed THEN <<Entity("t1", FALSE)>> ELSE <<>>,
            IF "performers" \in printed THEN <<Entity("p1", FALSE)>> ELSE <<>>,
            IF "studio" \in printed THEN <<Entity("s1", FALSE)>> ELSE <<>>,
            (printed \cap {"title", "details"})
              \cup (IF "url" \in printed /\ url_kept THEN {"urls"} ELSE {}))
    /\ apiPc' = "scraped"
    /\ UNCHANGED <<run, api_input, printed, useful>>
    /\ UNCHANGED <<findVars, extractVars, cleanVars, dumpVars, parseVars,
                   entryVars, pageVars>>
    /\ UNCHANGED <<htmlVars, rateVars, orderVars, syncVars, bulkVars, mainVars>>

\* BulkScraper.scrape_item: has_useful_data
api_judge ==
    /\ run = "api"
    /\ apiPc = "scraped"
    /\ useful' = has_useful_data(scraped_data)
    /\ apiPc' = "judged"
    /\ UNCHANGED <<run, api_input, printed, scraped_data>>
    /\ UNCHANGED <<findVars, extractVars, cleanVars, dumpVars, parseVars,
                   entryVars, pageVars>>
    /\ UNCHANGED <<htmlVars, rateVars, orderVars, syncVars, bulkVars, mainVars>>

NextApi ==
    \/ api_main
    \/ \E url_kept \in BOOLEAN : stash_scrape_item(url_kept)
    \/ api_judge

(***************************************************************************)
(* rule34xxx_html.py : Rule34TagParser, fed one event at a time.  Text is  *)
(* a sequence of characters.                                               *)
(***************************************************************************)
Categories == {"characters", "artists", "copyrights", "general", "meta"}

\* The class attributes of the <li> elements fed
LiClasses ==
    {"tag-type-artist tag", "tag-type-general tag", "series", "post", ""}

\* The chain of substring tests of handle_starttag on a class attribute:
\* the category selected, "keep" when no test matches
CategoryOfClass(c) ==
    CASE c = "tag-type-character tag" -> "characters"
      [] c = "tag-type-artist tag" -> "artists"
      [] c = "tag-type-copyright tag" -> "copyrights"
      [] c = "series" -> "copyrights"
      [] c = "tag-type-metadata tag" -> "meta"
      [] c = "tag-type-general tag" -> "general"
      [] OTHER -> "keep"

\* The texts handle_data is called with
DataTexts ==
    {<<"a">>, <<"a", "b">>, <<"?">>, <<"_">>, <<" ", "b", "_", "c", " ">>}

\* str.replace("_", " ")
UnderscoresToSpaces(t) ==
    [i \in 1..Len(t) |-> IF t[i] = "_" THEN " " ELSE t[i]]

NoTags == [c \in Categories |-> <<>>]

InitParse ==
    /\ parsePc = "feed"
    /\ parser = [tags |-> NoTags, current_tag_type |-> "None",
                 current_tag_link |-> FALSE, current_tag_name |-> <<>>]
    /\ nesting = [in_item |-> FALSE, in_link |-> FALSE, last |-> "none",
                  stray_in_name |-> FALSE, stray_recorded |-> FALSE]
    /\ events_fed = 0

IdleParse ==
    /\ parsePc = "off"
    /\ parser = [tags |-> NoTags, current_tag_type |-> "None",
                 current_tag_link |-> FALSE, current_tag_name |-> <<>>]
    /\ nesting = [in_item |-> FALSE, in_link |-> FALSE, last |-> "none",
                  stray_in_name |-> FALSE, stray_recorded |-> FALSE]
    /\ events_fed = 0

Fed ==
    /\ run = "parse"
    /\ parsePc = "feed"
    /\ events_fed < MaxEvents
    /\ events_fed' = events_fed + 1
    /\ UNCHANGED <<run, parsePc>>
    /\ UNCHANGED <<findVars, extractVars, cleanVars, dumpVars, apiVars,
                   entryVars, pageVars>>
    /\ UNCHANGED <<htmlVars, rateVars, orderVars, syncVars, bulkVars, mainVars>>

\* handle_starttag("li", [("class", c)])
handle_starttag_li(c) ==
    /\ Fed
    /\ parser' = [parser EXCEPT !.current_tag_type =
                     IF CategoryOfClass(c) = "keep" THEN @
                     ELSE CategoryOfClass(c)]
    /\ nesting' = [nesting EXCEPT
                     !.in_item = IF CategoryOfClass(c) = "keep" THEN @ ELSE TRUE,
                     !.last = "li"]

\* handle_starttag("a", ...)
handle_starttag_a ==
    /\ Fed
    /\ parser' = IF parser.current_tag_type # "None"
                 THEN [parser EXCEPT !.current_tag_link = TRUE,
                                     !.current_tag_name = <<>>]
                 ELSE parser
    /\ nesting' = [nesting EXCEPT
                     !.in_link = nesting.in_item,
                     !.stray_in_name =
                        IF parser.current_tag_type # "None" THEN FALSE ELSE @,
                     !.last = "a"]

\* handle_data(data)
handle_data(data) ==
    /\ Fed
    /\ parser' = IF parser.current_tag_link
                 THEN [parser EXCEPT !.current_tag_name = @ \o Strip(data)]
                 ELSE parser
    /\ nesting' = [nesting EXCEPT
                     !.stray_in_name =
                        IF /\ parser.current_tag_link
                           /\ Strip(data) # <<>>
                           /\ ~(nesting.in_item /\ nesting.in_link)
                        THEN TRUE ELSE @,
                     !.last = "data"]

\* (mutant) a name is appended whether or not the list has it
Recorded_Again(names, n) == Append(names, n)

\* if tag_name not in self.tags[type]: self.tags[type].append(tag_name)
Recorded(names, n) ==
    IF \E k \in DOMAIN names : names[k] = n THEN names
    ELSE Append(names, n)

\* if tag_name and tag_name != "?" and len(tag_name) > 1
Keeps(n) == n # <<>> /\ n # <<"?">> /\ Len(n) > 1

\* handle_endtag("a")
handle_endtag_a ==
    /\ Fed
    /\ LET tag_name == Strip(UnderscoresToSpaces(parser.current_tag_name))
           saves == /\ parser.current_tag_link
                    /\ parser.current_tag_name # <<>>
           records == /\ saves
                      /\ Keeps(tag_name)
                      /\ parser.current_tag_type # "None"
       IN
       /\ parser' =
            IF ~saves THEN parser
            ELSE [parser EXCEPT
                    !.tags = IF records
                             THEN [@ EXCEPT ![parser.current_tag_type] =
                                     Recorded(@, tag_name)]
                             ELSE @,
                    !.current_tag_link = FALSE,
                    !.current_tag_name = <<>>]
       /\ nesting' = [nesting EXCEPT
                        !.in_link = FALSE,
                        !.stray_recorded =
                            IF records /\ nesting.stray_in_name THEN TRUE ELSE @,
                        !.stray_in_name = IF saves THEN FALSE ELSE @,
                        !.last = "/a"]

\* handle_endtag("li")
handle_endtag_li ==
    /\ Fed
    /\ parser' = [parser EXCEPT !.current_tag_type = "None"]
    /\ nesting' = [nesting EXCEPT !.in_item = FALSE, !.in_link = FALSE,
                                  !.last = "/li"]

NextParse ==
    \/ \E c \in LiClasses : handle_starttag_li(c)
    \/ handle_starttag_a
    \/ \E data \in DataTexts : handle_data(data)
    \/ handle_endtag_a
    \/ handle_endtag_li

(***************************************************************************)
(* The entry points of the two scrapers, rule34xxx.py main and             *)
(* rule34xxx_html.py main, one step at a time.  What a run prints is an    *)
(* object, given by the set of its fields.                                 *)
(***************************************************************************)
Scripts == {"rule34xxx", "rule34xxx_html"}

\* stdin: text that is not JSON, an object without path, or an object
\* whose file name is r34_<digits>..., has hexadecimal characters, or has
\* none
Stdins == {"bad_json", "no_path", "r34_name", "hex_name", "nohex_name"}

EntryInputs ==
    [stdin : Stdins, credentials : BOOLEAN,
     api : {"failed", "no_posts", "post"}, page : {"None", "False", "tags"}]

\* (mutant) the file name is never taken to hold a post id
extract_post_id_from_filename_Never(name) == FALSE

\* extract_post_id_from_filename: re.match(r'^r34_(\d+)', stem)
extract_post_id_from_filename(name) == name = "r34_name"

\* extract_md5_from_path of either script is empty or not
HasMd5(name) == name \in {"r34_name", "hex_name"}

\* rule34xxx_html.map_to_stashapp on a parser's tags
HtmlMapped == {"url", "tags"}

\* rule34xxx.map_to_stashapp on a post
ApiMapped == map_to_stashapp(FullPost, "md5")

InitEntry ==
    /\ entryPc = "start"
    /\ script \in Scripts
    /\ entry_input \in EntryInputs
    /\ effects = <<>>
    /\ stdout = <<>>

IdleEntry ==
    /\ entryPc = "off"
    /\ script = "rule34xxx"
    /\ entry_input = [stdin |-> "no_path", credentials |-> FALSE,
                      api |-> "failed", page |-> "None"]
    /\ effects = <<>>
    /\ stdout = <<>>

\* print(json.dumps(obj)); return
PrintAndReturn(obj, done) ==
    /\ stdout' = Append(stdout, obj)
    /\ effects' = effects \o done
    /\ entryPc' = "done"

\* a step that prints nothing
GoOn(to, done) ==
    /\ entryPc' = to
    /\ effects' = effects \o done
    /\ UNCHANGED stdout

\* (mutant) the handler logs and prints nothing
Handler_Silent(done) ==
    /\ entryPc' = "done"
    /\ effects' = effects \o done
    /\ UNCHANGED stdout

\* except Exception as e: ... print(json.dumps({}))
Handler(done) == PrintAndReturn({}, done)

EntryStep(sc, at) ==
    /\ run = "entry"
    /\ script = sc
    /\ entryPc = at
    /\ UNCHANGED <<run, script, entry_input>>
    /\ UNCHANGED <<findVars, extractVars, cleanVars, dumpVars, apiVars,
                   parseVars, pageVars>>
    /\ UNCHANGED <<htmlVars, rateVars, orderVars, syncVars, bulkVars, mainVars>>

\* rule34xxx_html main: json.load(sys.stdin) and the file path
html_read_input ==
    /\ EntryStep("rule34xxx_html", "start")
    /\ IF entry_input.stdin = "bad_json" THEN Handler(<<>>)
       ELSE IF entry_input.stdin = "no_path" THEN PrintAndReturn({}, <<>>)
       ELSE GoOn("post_id", <<>>)

\* rule34xxx_html main: the post id, from the file name or from the API
html_find_post_id(raises) ==
    /\ EntryStep("rule34xxx_html", "post_id")
    /\ IF extract_post_id_from_filename(entry_input.stdin)
       THEN IF raises THEN Handler(<<>>) ELSE GoOn("fetch", <<>>)
       ELSE IF ~entry_input.credentials
         THEN PrintAndReturn({}, <<"load_credentials">>)
       ELSE IF ~HasMd5(entry_input.stdin)
         THEN PrintAndReturn({}, <<"load_credentials">>)
       ELSE IF raises THEN Handler(<<"load_credentials">>)
       ELSE IF entry_input.api # "post"
         THEN PrintAndReturn({}, <<"load_credentials", "api_query">>)
       ELSE GoOn("fetch", <<"load_credentials", "api_query">>)

\* rule34xxx_html main: scrape_html_tags(post_id) and what follows it
html_fetch_and_print(raises) ==
    /\ EntryStep("rule34xxx_html", "fetch")
    /\ IF entry_input.page \in {"None", "False"}
       THEN PrintAndReturn({}, <<"page_fetch">>)
       ELSE IF raises THEN Handler(<<"page_fetch">>)
       ELSE PrintAndReturn(HtmlMapped, <<"page_fetch">>)

\* rule34xxx main: load_credentials
api_load_credentials ==
    /\ EntryStep("rule34xxx", "start")
    /\ IF ~entry_input.credentials
       THEN PrintAndReturn({}, <<"load_credentials">>)
       ELSE GoOn("input", <<"load_credentials">>)

\* rule34xxx main: json.load(sys.stdin), the file path and the md5
api_read_input ==
    /\ EntryStep("rule34xxx", "input")
    /\ IF entry_input.stdin = "bad_json" THEN Handler(<<>>)
       ELSE IF entry_input.stdin = "no_path" THEN PrintAndReturn({}, <<>>)
       ELSE IF ~HasMd5(entry_input.stdin) THEN PrintAndReturn({}, <<>>)
       ELSE GoOn("query", <<>>)

\* rule34xxx main: query_rule34_api, parse_api_response, map_to_stashapp
api_query_and_print(raises) ==
    /\ EntryStep("rule34xxx", "query")
    /\ IF entry_input.api = "failed" THEN PrintAndReturn({}, <<"api_query">>)
       ELSE IF entry_input.api = "no_posts"
         THEN PrintAndReturn({"url"}, <<"api_query">>)
       ELSE IF raises THEN Handler(<<"api_query">>)
       ELSE PrintAndReturn(ApiMapped, <<"api_query">>)

NextEntry ==
    \/ html_read_input
    \/ \E raises \in BOOLEAN : html_find_post_id(raises)
    \/ \E raises \in BOOLEAN : html_fetch_and_print(raises)
    \/ api_load_credentials
    \/ api_read_input
    \/ \E raises \in BOOLEAN : api_query_and_print(raises)

(***************************************************************************)
(* rule34_stash_tagger.py : Rule34WikiScraper._remove_tag_dumps.  The text *)
(* is a sequence of words with one space between two of them:              *)
(*   word  "cdefg"   a word of prose                                       *)
(*   stop  "Ab."     a word that ends a sentence                           *)
(*   girl  "1girl"   a word that one of tag_dump_patterns matches          *)
(*   tag   "a_b"     an underscore-joined word                             *)
(***************************************************************************)
WordLen(w) ==
    CASE w = "word" -> 5 [] w = "stop" -> 3 [] w = "girl" -> 5 [] OTHER -> 3

\* The place in the text of the first character of its k-th word, counted
\* from 0; for k = Len(ws) + 1, one more than the length of the text.
RECURSIVE StartOf(_, _)
StartOf(ws, k) ==
    IF k = 1 THEN 0 ELSE StartOf(ws, k - 1) + WordLen(ws[k - 1]) + 1

\* The prose before a dump, and what can follow it: nothing, or a word of
\* the list followed by some underscore-joined words.
ProseTexts == UNION { [1..n -> {"word", "stop"}] : n \in 0..MaxProse }

TagRuns ==
    { <<>>, <<"girl">>, <<"girl", "tag", "tag", "tag", "tag">>,
      <<"girl", "tag", "tag", "tag", "tag", "tag">>,
      <<"girl", "tag", "tag", "tag", "tag", "tag", "tag">> }

InitDump ==
    /\ dumpPc = "call"
    /\ words \in {p \o d : p \in ProseTexts, d \in TagRuns}
    /\ kept_words = <<>>

IdleDump ==
    /\ dumpPc = "off"
    /\ words = <<>>
    /\ kept_words = <<>>

(***************************************************************************)
(* bulk_scraper.py : the paging loop of scrape_all                         *)
(***************************************************************************)
\* BATCH_SIZE, the per_page of every find call (50 in the source)
BATCH_SIZE == 2

\* how scrape_item can end for one item
ItemOutcomes == {"success", "skipped", "failed"}

\* find_scenes / find_images: page p of the store, per_page items a page,
\* sort id ASC; a page past the end is empty
find_items(s, p, per_page) ==
    LET first == (p - 1) * per_page + 1
        last == IF p * per_page < Len(s) THEN p * per_page ELSE Len(s)
    IN  IF first > Len(s) THEN <<>> ELSE SubSeq(s, first, last)

InitPage ==
    /\ pagePc = "find"
    /\ store \in {[i \in 1..n |-> i] : n \in 0..MaxStore}
    /\ limit \in 0..MaxLimit
    /\ page = 1
    /\ page_items = <<>>
    /\ item_at = 0
    /\ n_fetched = 0
    /\ page_results = <<>>
    /\ pages_seen = <<>>

IdlePage ==
    /\ pagePc = "off"
    /\ store = <<>>
    /\ limit = 0
    /\ page = 1
    /\ page_items = <<>>
    /\ item_at = 0
    /\ n_fetched = 0
    /\ page_results = <<>>
    /\ pages_seen = <<>>

PageStep(at) ==
    /\ run = "page"
    /\ pagePc = at
    /\ UNCHANGED <<run, store, limit>>
    /\ UNCHANGED <<findVars, extractVars, cleanVars, dumpVars, apiVars,
                   parseVars, entryVars>>
    /\ UNCHANGED <<htmlVars, rateVars, orderVars, syncVars, bulkVars, mainVars>>

\* (mutant) the limit is never looked at
LimitReached_Never == FALSE

\* limit and items_fetched >= limit
LimitReached == limit # 0 /\ n_fetched >= limit

\* the head of the while loop: the find call, which may raise out of
\* scrape_all, and "if not items: break"
scrape_all_find(raises) ==
    /\ PageStep("find")
    /\ IF raises
       THEN /\ pagePc' = "raised"
            /\ UNCHANGED <<page, page_items, item_at, n_fetched, page_results,
                           pages_seen>>
       ELSE LET its == find_items(store, page, BATCH_SIZE)
            IN  /\ page_items' = its
                /\ item_at' = 0
                /\ pages_seen' = Append(pages_seen,
                                        [length |-> Len(its),
                                         fetched |-> n_fetched])
                /\ pagePc' = IF its = <<>> THEN "returned" ELSE "items"
                /\ UNCHANGED <<page, n_fetched, page_results>>

\* one turn of "for item in items" that gets past the limit test
scrape_all_item(outcome) ==
    /\ PageStep("items")
    /\ item_at < Len(page_items)
    /\ ~LimitReached
    /\ item_at' = item_at + 1
    /\ n_fetched' = n_fetched + 1
    /\ page_results' = Append(page_results,
                              [item_id |-> page_items[item_at + 1],
                               outcome |-> outcome])
    /\ UNCHANGED <<pagePc, page, page_items, pages_seen>>

\* the for loop is left, at its end or by break, and the two tests after it
scrape_all_page_done ==
    /\ PageStep("items")
    /\ item_at = Len(page_items) \/ LimitReached
    /\ IF LimitReached \/ Len(page_items) < BATCH_SIZE
       THEN pagePc' = "returned" /\ UNCHANGED page
       ELSE pagePc' = "find" /\ page' = page + 1
    /\ UNCHANGED <<page_items, item_at, n_fetched, page_results, pages_seen>>

NextPage ==
    \/ \E raises \in BOOLEAN : scrape_all_find(raises)
    \/ \E outcome \in ItemOutcomes : scrape_all_item(outcome)
    \/ scrape_all_page_done

IdleText ==
    /\ IdleFind /\ IdleExtract /\ IdleClean /\ IdleDump /\ IdleApi
    /\ IdleParse /\ IdleEntry /\ IdlePage

\* re.search(combined_pattern, text): the first word that matches, 0 if
\* there is none
FirstTagWord(ws) ==
    IF \E k \in DOMAIN ws : ws[k] = "girl"
    THEN CHOOSE k \in DOMAIN ws :
            ws[k] = "girl" /\ \A j \in 1..(k - 1) : ws[j] # "girl"
    ELSE 0

\* len(re.findall(r'\b\w+_\w+\b', after[:200])), after = text[pos:]
TagCount(ws, k) ==
    Cardinality({j \in k..Len(ws) :
        /\ ws[j] = "tag"
        /\ StartOf(ws, j) + WordLen(ws[j]) - StartOf(ws, k) <= 200})

\* before.rfind('. '): the place of the last full stop that a space
\* follows, -1 if there is none; j is the word that ends with it
LastStop(ws, k) ==
    IF \E j \in 1..(k - 1) : ws[j] = "stop"
    THEN LET j == CHOOSE i \in 1..(k - 1) :
                    ws[i] = "stop" /\ \A h \in (i + 1)..(k - 1) : ws[h] # "stop"
         IN [word |-> j, sentence_end |-> StartOf(ws, j) + WordLen(ws[j]) - 1]
    ELSE [word |-> 0, sentence_end |-> -1]

\* _remove_tag_dumps
remove_tag_dumps(ws) ==
    LET k == FirstTagWord(ws) IN
    IF k # 0 /\ TagCount(ws, k) >= 5
    THEN LET len_before == StartOf(ws, k)
             last == LastStop(ws, k)
         IN \* if sentence_end > len(before) * 0.3
            IF 10 * last.sentence_end > 3 * len_before
            THEN SubSeq(ws, 1, last.word)
            ELSE SubSeq(ws, 1, k - 1)
    ELSE ws

remove_tag_dumps_call ==
    /\ run = "dump"
    /\ dumpPc = "call"
    /\ kept_words' = remove_tag_dumps(words)
    /\ dumpPc' = "returned"
    /\ UNCHANGED <<run, words, findVars, extractVars, cleanVars>>
    /\ UNCHANGED <<apiVars, parseVars, entryVars, pageVars>>
    /\ UNCHANGED <<htmlVars, rateVars, orderVars, syncVars, bulkVars, mainVars>>

NextDump == remove_tag_dumps_call

(***************************************************************************)
(* Properties of scrape_html_tags                                          *)
(***************************************************************************)
HtmlEnded == htmlPc \in {"returned", "emitted"}

Is429(r) == r.kind = "HTTPError" /\ r.code = 429
Is5xx(r) == r.kind = "HTTPError" /\ r.code \in {500, 502, 503, 504}
IsNotFoundAnswer(r) ==
    \/ r.kind = "HTTPError" /\ r.code = 404
    \/ r.kind = "page" /\ r.body \in {"chickens", "post_not_found"}
IsSuccess(v) == v \in {"tags", "no_tags"}

RECURSIVE SumSeq(_)
SumSeq(q) == IF q = <<>> THEN 0 ELSE Head(q) + SumSeq(Tail(q))

\* C1: an attempt answered with 404, or with a page carrying the not-found
\* signature, is the last request of the fetch: the fetch has ended with
\* False and no sleep followed that attempt, whatever came before it.
C1_NotFoundEndsFetch ==
    \A i \in DOMAIN responses :
        IsNotFoundAnswer(responses[i]) =>
            /\ i = Len(responses)
            /\ HtmlEnded
            /\ categorized_tags = "False"
            /\ Len(sleeps) = i - 1

C1_Witness ==
    /\ HtmlEnded
    /\ Len(responses) = 3
    /\ Is429(responses[1])
    /\ responses[2] = URLError
    /\ responses[3] = Page("post_not_found")

\* C2: while every answer so far is a 429, or every answer so far is a 5xx,
\* the fetch goes on until retry_count requests were sent, and it then ends
\* with None (never False, never a tag dictionary).
C2_AllTransientExhausts ==
    ((\A i \in DOMAIN responses : Is429(responses[i]))
        \/ (\A i \in DOMAIN responses : Is5xx(responses[i])))
    /\ htmlPc \in {"loop", "returned", "emitted"}
    => /\ Len(responses) <= retry_count
       /\ HtmlEnded => Len(responses) = retry_count /\ categorized_tags = "None"
       /\ (htmlPc = "loop" /\ Len(responses) = retry_count)
              => retry_count = 0

C2_Witness ==
    /\ HtmlEnded
    /\ retry_count = 4
    /\ responses = <<HTTPError(503), HTTPError(500), HTTPError(502), HTTPError(504)>>
    /\ categorized_tags = "None"

\* C3 (as stated): with retry_count = 3, once the provider has answered 429
\* three times in a row the fetch ends with Success.
C3_Original ==
    /\ retry_count = 3
    /\ HtmlEnded
    /\ Len(responses) >= 3
    /\ \A i \in 1..3 : Is429(responses[i])
    => IsSuccess(categorized_tags)

\* C3 (amended): with retry_count = 3, a third 429 in a row ends the fetch
\* with None after exactly three requests and two sleeps, so the 200 a
\* fourth request would get is never asked for; a page without the
\* not-found signature that arrives after at most two 429s is a Success.
C3_ThreeRateLimitsExhaust ==
    retry_count = 3 /\ htmlPc \in {"loop", "returned", "emitted"} =>
        /\ Len(responses) <= 3
        /\ (Len(responses) = 3 /\ \A i \in 1..3 : Is429(responses[i]))
              => HtmlEnded /\ categorized_tags = "None" /\ Len(sleeps) = 2
        /\ \A b \in {"tags", "no_tags"} :
              (/\ responses # <<>>
               /\ responses[Len(responses)] = Page(b)
               /\ \A i \in 1..(Len(responses) - 1) : Is429(responses[i]))
              => HtmlEnded /\ categorized_tags = b

C3_Witness ==
    /\ retry_count = 3
    /\ htmlPc = "returned"
    /\ responses = <<HTTPError(429), HTTPError(429), HTTPError(429)>>
    /\ categorized_tags = "None"

\* C4: the k-th sleep of a fetch (k counted from 0) follows failed attempt
\* k and lasts 2^k after a 429 and 1 after a 5xx or a network error; one
\* sleep follows every failed attempt but the last, after which there is
\* none, so three 429s with retry_count = 3 sleep 1 + 2 = 3 in all.
C4_BackoffSchedule ==
    /\ \A k \in DOMAIN sleeps :
          /\ Is429(responses[k]) \/ Is5xx(responses[k]) \/ responses[k] = URLError
          /\ sleeps[k] = IF Is429(responses[k]) THEN 2 ^ (k - 1) ELSE 1
    /\ htmlPc = "loop" => Len(sleeps) = Len(responses)
    /\ (HtmlEnded /\ responses # <<>>) => Len(sleeps) = Len(responses) - 1
    /\ Len(sleeps) <= IF retry_count = 0 THEN 0 ELSE retry_count - 1
    /\ (retry_count = 3 /\ Len(responses) = 3
            /\ \A i \in 1..3 : Is429(responses[i]))
          => SumSeq(sleeps) = 3 /\ HtmlEnded

C4_Witness ==
    /\ retry_count = 4
    /\ htmlPc = "loop"
    /\ sleeps = <<1, 1, 4>>
    /\ Is429(responses[3])

\* A non-2xx status other than 404, 429 and the 5xx family
IsOtherHttpError(r) ==
    r.kind = "HTTPError" /\ ~Is429(r) /\ ~Is5xx(r) /\ r.code # 404

\* The failures the fetch retries
IsRetried(r) == Is429(r) \/ Is5xx(r) \/ r = URLError

\* The i-th request was the last of a fetch that has ended
EndedAt(i) == HtmlEnded /\ i = Len(responses)

\* C28 (as stated): a 429, a 5xx, a network error or any other non-2xx
\* status except 404, on an attempt that is not the last, does not end
\* the fetch: another attempt follows it.
C28_Original ==
    \A i \in DOMAIN responses :
        (IsRetried(responses[i]) \/ IsOtherHttpError(responses[i]))
            /\ i < retry_count
        => ~EndedAt(i)

\* C28 (amended): a 429, a 5xx or a URLError on an attempt that is not the
\* last does not end the fetch, and a sleep follows it; on the last
\* attempt it ends the fetch with None.  Any other non-2xx status except
\* 404, and any other exception, ends the fetch with None on whichever
\* attempt it arrives, with no sleep and no further attempt.
C28_RetriedFailuresGoOn ==
    \A i \in DOMAIN responses :
        /\ (IsRetried(responses[i]) /\ i < retry_count)
              => ~EndedAt(i) /\ Len(sleeps) >= i
        /\ (IsRetried(responses[i]) /\ i = retry_count)
              => EndedAt(i) /\ categorized_tags = "None"
        /\ (IsOtherHttpError(responses[i]) \/ responses[i] = OtherException)
              => EndedAt(i) /\ categorized_tags = "None" /\ Len(sleeps) = i - 1

C28_Witness ==
    /\ retry_count = 4
    /\ htmlPc = "returned"
    /\ responses = <<URLError, HTTPError(502), HTTPError(403)>>
    /\ sleeps = <<1, 1>>
    /\ categorized_tags = "None"

(***************************************************************************)
(* Properties of _wait_for_rate_limit                                      *)
(***************************************************************************)
\* C6: with a positive interval the last-call timestamps two consecutive
\* calls record lie at least the interval apart; with interval 0 no call
\* sleeps.
C6_RateLimitSpacing ==
    /\ (rate_limit > 0 /\ calls >= 2)
          => last_request_time - prev_request_time >= rate_limit
    /\ rate_limit = 0 => slept = 0 /\ last_sleep = 0

C6_Witness ==
    /\ rate_limit = 3
    /\ calls >= 3
    /\ last_sleep = 2
    /\ last_request_time - prev_request_time = 3

(***************************************************************************)
(* Properties of the strategy order                                        *)
(***************************************************************************)
Frag == FragmentScrapers(all_scrapers)

\* position i holds a generic-named scraper and a later one a specific one
GenericBeforeSpecific(list, i) ==
    /\ is_generic_scraper(list[i])
    /\ \E j \in DOMAIN list : i < j /\ ~is_generic_scraper(list[j])

\* C9 (as stated): whatever name was requested, no generic-named scraper
\* of the ordered list stands before a specific-named one.
C9_Original ==
    orderPc = "ordered" =>
        \A i \in DOMAIN ordered_scrapers :
            ~GenericBeforeSpecific(ordered_scrapers, i)

\* C9 (amended): a generic-named scraper stands before a specific-named
\* one only when it is the requested scraper, and then it is the first of
\* the list; with no name requested, or a specific-named one, every
\* generic-named scraper follows every specific-named one.
C9_GenericLastExceptRequested ==
    orderPc = "ordered" =>
        \A i \in DOMAIN ordered_scrapers :
            GenericBeforeSpecific(ordered_scrapers, i) =>
                /\ i = 1
                /\ scraper_name # <<>>
                /\ MatchesName(ordered_scrapers[1], scraper_name)

C9_Witness ==
    /\ orderPc = "ordered"
    /\ scraper_name = <<>>
    /\ Len(all_scrapers) = 3
    /\ is_generic_scraper(all_scrapers[1])
    /\ ~is_generic_scraper(all_scrapers[2])
    /\ is_generic_scraper(all_scrapers[3])
    /\ Len(ordered_scrapers) = 3
    /\ ordered_scrapers[1] = all_scrapers[2]

\* the list without the element at place k
Without(list, k) ==
    [i \in 1..(Len(list) - 1) |-> IF i < k THEN list[i] ELSE list[i + 1]]

\* C10: when a name is requested and a FRAGMENT-capable scraper carries
\* it, the ordered list is the requested scraper, then the other scrapers
\* that are not generic-named in input order, then the generic-named ones
\* in input order.
C10_RequestedFirstThenSpecificThenGeneric ==
    (/\ orderPc \in {"ordered", "aborted"}
     /\ scraper_name # <<>>
     /\ \E i \in DOMAIN Frag : MatchesName(Frag[i], scraper_name))
    => /\ orderPc = "ordered"
       /\ \E k \in DOMAIN Frag :
             /\ MatchesName(Frag[k], scraper_name)
             /\ ordered_scrapers =
                    <<Frag[k]>>
                    \o SelectSeq(Without(Frag, k),
                                 LAMBDA sc : ~is_generic_scraper(sc))
                    \o SelectSeq(Without(Frag, k),
                                 LAMBDA sc : is_generic_scraper(sc))

\* C33: the ordered list scrape_all builds is a permutation of the
\* FRAGMENT-capable scrapers: as long as the list, and holding each of
\* them at exactly one place.
C33_OrderIsPermutation ==
    (run = "order" /\ orderPc = "ordered") =>
        /\ Len(ordered_scrapers) = Len(Frag)
        /\ \E f \in [DOMAIN Frag -> DOMAIN Frag] :
              /\ \A i, j \in DOMAIN Frag : i # j => f[i] # f[j]
              /\ \A i \in DOMAIN Frag : ordered_scrapers[i] = Frag[f[i]]

(***************************************************************************)
(* Properties of the three fetching programs together                      *)
(***************************************************************************)
\* C5 (as stated): every request attempt of the HTML fetch, of the wiki
\* fetches and of the bulk run's scrapes, retries included, has exactly one
\* rate-limiter wait() call between the end of the previous attempt and
\* itself.
C5_OneWaitBeforeEveryAttempt ==
    /\ \A k \in DOMAIN htmlWaits : htmlWaits[k] = 1
    /\ \A w \in wikiWaits : w = 1
    /\ \A w \in bulkWaits : w = 1

TransientReasons ==
    {"Rate limited", "Server error", "Request timeout", "request error"}

FetchFailed(tr) ==
    tr # <<>>
    /\ \A k \in DOMAIN tr : tr[k].outcome \in {"raise", "none", "useless"}

UpdatesOfItem(i) ==
    {k \in DOMAIN mutations :
        mutations[k].op = "update" /\ mutations[k].item = i}

\* C7: a fetch that ended as a transient failure writes nothing: the HTML
\* scraper prints the empty object; the tag sync sends no update for a tag
\* whose scrape ended rate limited, with a server error, a timeout or a
\* network error, and the tag's stored description stays what it was; the
\* bulk run sends no update for an item none of whose scrapes gave useful
\* data, and the item's stored record stays what it was.
C7_NoWriteOnTransientFailure ==
    /\ (htmlPc = "emitted" /\ categorized_tags = "None") => output = "{}"
    /\ \A i \in DOMAIN wikiLog :
          wikiLog[i].error \in TransientReasons =>
              /\ i \notin Range(tagUpdateCalls)
              /\ tagDescription[i] = stash_tags[i].description
    /\ \A i \in DOMAIN triedLog :
          FetchFailed(triedLog[i]) =>
              /\ UpdatesOfItem(i) = {}
              /\ ~results[i].success
              /\ item_store[i] = FreshStore(items)[i]

\* A batch in which the first tag's search timed out and the second tag
\* was updated.
C7_Witness ==
    /\ syncPc = "done"
    /\ Len(syncResults) = 2
    /\ wikiLog[1].error = "Request timeout"
    /\ tagUpdateCalls = <<2>>
    /\ tagDescription[2] = "wiki"

\* C8 (as stated): an exception raised while one item is processed never
\* ends the batch: once the batch is over every tag and every item has its
\* result, and an item whose last scrape raised is not a success.
C8_ExceptionNeverAbortsBatch ==
    /\ syncPc \in {"done", "crashed"} => Len(syncResults) = Len(stash_tags)
    /\ (bulkPc = "done" /\ orderPc = "ordered") =>
          /\ Len(results) = Len(items)
          /\ \A i \in DOMAIN results :
                (/\ triedLog[i] # <<>>
                 /\ triedLog[i][Len(triedLog[i])].outcome
                        \in {"raise", "raise_in_data"})
                => ~results[i].success /\ results[i].error = "exception"

(***************************************************************************)
(* Properties of _should_skip_item                                         *)
(***************************************************************************)
DateFilter(o) == o.date_since # NoDate \/ o.date_before # NoDate

\* The six rules in the order the specification lists them.
SkipRuleApplies(k, o, it) ==
    CASE k = 1 -> o.skip_organized /\ it.organized
      [] k = 2 -> o.skip_tagged /\ it.tags # {}
      [] k = 3 -> \E t \in it.tags : LowerTag(t) \in o.skip_if_has_tags
      [] k = 4 -> ~it.path
      [] k = 5 -> DateFilter(o) /\ it.file_timestamp = NoDate
      [] OTHER -> /\ DateFilter(o)
                  /\ it.file_timestamp # NoDate
                  /\ \/ o.date_since # NoDate
                        /\ it.file_timestamp < o.date_since
                     \/ o.date_before # NoDate
                        /\ it.file_timestamp >= o.date_before + DayLength

SkipRuleReasons(k) ==
    CASE k = 1 -> {"already organized"}
      [] k = 2 -> {"already has tags"}
      [] k = 3 -> {"has exclusion tag"}
      [] k = 4 -> {"no file path"}
      [] k = 5 -> {"no file timestamp available"}
      [] OTHER -> {"before date filter", "after date filter"}

\* C11: _should_skip_item answers with the reason of the first rule that
\* matches, in the order organized, tagged, exclusion tag, no path, no
\* timestamp under a date filter, outside the date range; an item that
\* matches no enabled rule is not skipped.
C11_FirstMatchingRuleWins ==
    bulkPc = "skip_returned" =>
        LET hits == {k \in 1..6 : SkipRuleApplies(k, options, items[1])} IN
        IF hits = {} THEN ~result.skipped /\ result.skip_reason = "None"
        ELSE /\ result.skipped
             /\ \E k \in hits :
                   /\ \A j \in hits : k <= j
                   /\ result.skip_reason \in SkipRuleReasons(k)

\* An organized item without a path under skip_organized.
C11_Witness ==
    /\ bulkPc = "skip_returned"
    /\ options.skip_organized
    /\ items[1].organized
    /\ ~items[1].path
    /\ items[1].tags = {"X"}
    /\ options.skip_if_has_tags = {"x"}
    /\ result.skip_reason = "already organized"

\* The day a timestamp falls on
DayOf(t) == t \div DayLength

\* C30: under a date filter, for an item that no earlier rule skips
\* (organized, tagged, exclusion tag, no path): without a timestamp it is
\* skipped with 'no file timestamp available'; with timestamp t it is
\* processed exactly when the since date, if given, is <= t, and t, if a
\* before date is given, is < that date + 1 day, i.e. falls on that day
\* or an earlier one.
C30_DateRangeIsInclusive ==
    (/\ run = "skip"
     /\ bulkPc = "skip_returned"
     /\ DateFilter(options)
     /\ \A k \in 1..4 : ~SkipRuleApplies(k, options, items[1]))
    => LET t == items[1].file_timestamp
           S == options.date_since
           B == options.date_before
       IN IF t = NoDate
          THEN /\ result.skipped
               /\ result.skip_reason = "no file timestamp available"
          ELSE /\ ~result.skipped <=>
                    /\ S # NoDate => S <= t
                    /\ B # NoDate => t < B + DayLength
               /\ B # NoDate => (t < B + DayLength <=> DayOf(t) <= DayOf(B))
               /\ result.skipped =>
                    result.skip_reason \in
                        {"before date filter", "after date filter"}

\* An item stamped in the last moment of the before date, which is also
\* the since date, is processed.
C30_Witness ==
    /\ run = "skip"
    /\ bulkPc = "skip_returned"
    /\ options.date_since = DayLength
    /\ options.date_before = DayLength
    /\ items[1].file_timestamp = 2 * DayLength - 1
    /\ ~result.skipped

(***************************************************************************)
(* Properties of the bulk run                                              *)
(***************************************************************************)
NextItemIsSkipped ==
    /\ run \in {"bulk", "main"}
    /\ bulkPc = "items"
    /\ items_fetched < Len(items)
    /\ should_skip_item(options, items[items_fetched + 1]).skip

\* C12: the step of scrape_item on an item the skip check rejects only
\* appends the skip result: the rate limiter is not called,
\* last_request_time keeps its value, no strategy is invoked and no
\* mutation reaches the store.
C12_SkipHasNoSideEffect ==
    [][NextItemIsSkipped =>
         /\ calls' = calls
         /\ last_request_time' = last_request_time
         /\ bulkWaits' = bulkWaits
         /\ mutations' = mutations
         /\ item_store' = item_store
         /\ Len(results') = Len(results) + 1
         /\ results'[Len(results')].skipped
         /\ ~results'[Len(results')].scraped
         /\ triedLog'[Len(triedLog')] = <<>>]_vars

\* The second item of a batch was skipped after the first was scraped.
C12_Witness ==
    /\ run = "bulk"
    /\ Len(results) = 2
    /\ triedLog[1] # <<>>
    /\ results[2].skip_reason = "already has tags"
    /\ triedLog[2] = <<>>
    /\ calls = 1
    /\ last_request_time > 0

ContinuingOutcomes ==
    {"raise", "none", "useless", "raise_in_data", "no_updates"}

\* The strategies of tr were invoked in list order, one after the other.
InListOrder(tr) ==
    /\ Len(tr) <= Len(scrapers_to_try)
    /\ \A k \in DOMAIN tr : tr[k].scraper = scrapers_to_try[k].id

\* Every strategy before the last of tr sent the loop on.
OnlyLastCanStop(tr) ==
    \A k \in DOMAIN tr : k < Len(tr) => tr[k].outcome \in ContinuingOutcomes

ScrapedItems == {i \in DOMAIN triedLog : triedLog[i] # <<>>}

\* C13 (as stated): strategies are invoked in list order, only the first
\* one without try-all, and with try-all the loop stops at the first
\* strategy whose data is useful and whose update is accepted (in a dry
\* run: would be sent), so that a loop that ended before the end of the
\* list ended on such a strategy.
C13_Original ==
    \A i \in ScrapedItems :
        LET tr == triedLog[i] IN
        /\ InListOrder(tr)
        /\ OnlyLastCanStop(tr)
        /\ ~options.try_all_scrapers => Len(tr) = 1
        /\ Len(tr) < Len(scrapers_to_try)
              => tr[Len(tr)].outcome \in {"updated", "dry_run"}

\* C13 (amended): strategies are invoked in list order, only the first one
\* without try-all; the loop goes on after a strategy that raised, gave no
\* data, gave no useful data or left nothing to update, and it stops at the
\* first strategy with useful data for which an update was sent, accepted
\* or rejected (in a dry run: would be sent), or at the end of the list.
C13_StopsAtFirstUpdateSent ==
    /\ bulkPc = "strategies" =>
          /\ InListOrder(tried)
          /\ Len(tried) = scraper_index - 1
          /\ \A k \in DOMAIN tried : tried[k].outcome \in ContinuingOutcomes
    /\ \A i \in ScrapedItems :
          LET tr == triedLog[i] IN
          /\ InListOrder(tr)
          /\ OnlyLastCanStop(tr)
          /\ ~options.try_all_scrapers => Len(tr) = 1
          /\ \/ tr[Len(tr)].outcome \in {"updated", "rejected", "dry_run"}
             \/ /\ Len(tr) = Len(scrapers_to_try)
                /\ tr[Len(tr)].outcome \in ContinuingOutcomes

\* With try-all the first strategy left nothing to update and the second
\* one's update was rejected.
C13_Witness ==
    /\ run = "bulk"
    /\ options.try_all_scrapers
    /\ Len(ordered_scrapers) = 2
    /\ Len(triedLog) >= 1
    /\ Len(triedLog[1]) = 2
    /\ triedLog[1][1] = Tried(ordered_scrapers[1], "no_updates")
    /\ triedLog[1][2] = Tried(ordered_scrapers[2], "rejected")

Outcomes(tr) == {tr[k].outcome : k \in DOMAIN tr}

\* C14 (as stated): an item for which every tried strategy returned nothing
\* ends as an error; an item for which no strategy gave useful data and at
\* least one returned data judged not useful ends as a skip without error.
C14_ErrorOrSkipWithoutUsefulData ==
    \A i \in ScrapedItems :
        LET got == Outcomes(triedLog[i]) IN
        /\ got = {"none"} =>
              /\ results[i].error # "None"
              /\ ~results[i].skipped
              /\ ~results[i].success
        /\ (got \subseteq {"none", "useless"} /\ "useless" \in got) =>
              /\ results[i].skipped
              /\ results[i].error = "None"
              /\ ~results[i].success

\* C15: on a successful result fallback_used tells whether the strategy
\* that succeeded (the last one tried) is another than the first of the
\* ordered list, and scraper_name is that strategy's name.
C15_FallbackFlagAndName ==
    \A i \in DOMAIN results :
        results[i].success =>
            LET k == Len(triedLog[i]) IN
            /\ k >= 1
            /\ triedLog[i][k].scraper = ordered_scrapers[k].id
            /\ results[i].scraper_name = ordered_scrapers[k].name
            /\ results[i].fallback_used = (k # 1)

\* The first strategy raised and the second one's update was accepted.
C15_Witness ==
    /\ run = "bulk"
    /\ Len(results) >= 1
    /\ results[1].success
    /\ results[1].fallback_used
    /\ Len(triedLog[1]) = 2
    /\ triedLog[1][1].outcome = "raise"
    /\ triedLog[1][2].outcome = "updated"
    /\ results[1].scraper_name = ordered_scrapers[2].name

(***************************************************************************)
(* Properties of the statistics of a batch                                 *)
(***************************************************************************)
Succeeded(r) == r.success
Skipped(r) == ~r.success /\ r.skipped
Failed(r) == ~r.success /\ ~r.skipped

HowMany(P(_)) == Cardinality({i \in DOMAIN results : P(results[i])})

HowManyOf(P(_), name) ==
    Cardinality({i \in DOMAIN results :
                    P(results[i]) /\ results[i].scraper_name = name})

CountOf(f, k) == IF k \in DOMAIN f THEN f[k] ELSE 0

StrategyNames ==
    {all_scrapers[k].name : k \in DOMAIN all_scrapers}
        \cup DOMAIN stats.scraper_success_count
        \cup DOMAIN stats.scraper_failure_count

\* C17: between two items of a batch and at its end, processed is the
\* number of results and is successful + skipped + failed, each result
\* being counted in exactly one of the three; the success counter of a
\* strategy counts the successful results that name it, its failure counter
\* the failed results that name it, and skipped results are in neither.
\* While an item is under way it is counted in processed only.
C17_EveryItemCountedOnce ==
    (run \in {"bulk", "main"} /\ bulkPc \in {"items", "strategies", "done"}) =>
        /\ stats.processed =
              Len(results) + (IF bulkPc = "strategies" THEN 1 ELSE 0)
        /\ stats.successful = HowMany(Succeeded)
        /\ stats.skipped = HowMany(Skipped)
        /\ stats.failed = HowMany(Failed)
        /\ bulkPc # "strategies" =>
              stats.processed =
                  stats.successful + stats.skipped + stats.failed
        /\ \A n \in StrategyNames :
              /\ CountOf(stats.scraper_success_count, n)
                    = HowManyOf(Succeeded, n)
              /\ CountOf(stats.scraper_failure_count, n)
                    = HowManyOf(Failed, n)

\* A batch of two items is over, one updated and one failed, under two
\* different strategy names.
C17_Witness ==
    /\ run = "bulk"
    /\ bulkPc = "done"
    /\ Len(results) = 2
    /\ Succeeded(results[1])
    /\ Failed(results[2])
    /\ results[1].scraper_name # results[2].scraper_name
    /\ stats.processed = 2

(***************************************************************************)
(* Rejected updates                                                        *)
(***************************************************************************)
\* The store answered the update of item i with a failure.
ItemUpdateRejected(i) ==
    \E k \in DOMAIN mutations :
        /\ mutations[k].op = "update"
        /\ mutations[k].item = i
        /\ ~mutations[k].ok

\* The store was sent the new description of tag i and did not take it.
TagUpdateRejected(i) ==
    /\ i \in Range(tagUpdateCalls)
    /\ tagDescription[i] # "wiki"

\* C18: an item whose update the store rejected has a result with an error,
\* neither success nor skipped, the failed (errors) counter counts it, and
\* the loop goes on: while items are left, either the next one has been
\* taken or the loop is still running.
C18_RejectedUpdateIsAnItemError ==
    /\ run = "bulk" =>
          LET rejected == {i \in DOMAIN items : ItemUpdateRejected(i)} IN
          /\ \A i \in rejected :
                /\ i \in DOMAIN results
                /\ results[i].error = "Failed to update item"
                /\ ~results[i].success
                /\ ~results[i].skipped
                /\ i < Len(items) =>
                      \/ items_fetched > i
                      \/ bulkPc = "items"
          /\ stats.failed >= Cardinality(rejected)
    /\ run = "sync" =>
          LET rejected == {i \in DOMAIN stash_tags : TagUpdateRejected(i)} IN
          /\ \A i \in rejected :
                /\ i \in DOMAIN syncResults
                /\ syncResults[i].error = "Failed to update in Stash"
                /\ ~syncResults[i].updated
                /\ ~syncResults[i].skipped
                /\ i < Len(stash_tags) =>
                      \/ Len(wikiLog) > i
                      \/ syncPc = "run"
          /\ syncStats.errors = Cardinality(rejected)

\* The update of the first of two items was rejected and the second item
\* was updated.
C18_Witness ==
    /\ run = "bulk"
    /\ Len(results) = 2
    /\ ItemUpdateRejected(1)
    /\ results[1].error = "Failed to update item"
    /\ results[2].success
    /\ stats.failed = 1
    /\ stats.successful = 1

(***************************************************************************)
(* Merging of id lists                                                     *)
(***************************************************************************)
\* C19: the id lists an update request carries, which become the item's
\* lists in the store, hold every tag id and every performer id the item
\* had before the run, so that no update removes a tag or a performer.
C19_UpdateKeepsExistingIds ==
    run \in {"bulk", "main"} =>
        \A i \in DOMAIN item_store :
            /\ FreshStore(items)[i].tag_ids \subseteq item_store[i].tag_ids
            /\ FreshStore(items)[i].performer_ids
                  \subseteq item_store[i].performer_ids

(***************************************************************************)
(* Dry run                                                                 *)
(***************************************************************************)
\* C20: in a dry run the store receives no mutation: no tagCreate,
\* performerCreate, studioCreate or update of an item in the bulk run, no
\* tagUpdate in the tag sync, and the store's records stay as they were;
\* yet every item taken has its result and the statistics count it.
C20_DryRunSendsNoMutation ==
    /\ (run = "bulk" /\ options.dry_run) =>
          /\ mutations = <<>>
          /\ item_store = FreshStore(items)
          /\ bulkPc \in {"items", "done"} =>
                /\ Len(results) = items_fetched
                /\ stats.processed = items_fetched
                /\ stats.successful + stats.skipped + stats.failed
                      = items_fetched
    /\ (run = "sync" /\ sync_dry_run) =>
          /\ tagUpdateCalls = <<>>
          /\ tagDescription =
                [i \in DOMAIN stash_tags |-> stash_tags[i].description]
          /\ syncStats.total = Len(wikiLog)
          /\ syncPc # "crashed" =>
                /\ Len(syncResults) = Len(wikiLog)
                /\ syncStats.updated + syncStats.skipped
                      + syncStats.not_found = Len(syncResults)
          /\ syncStats.errors = 0

\* A dry run of the bulk scraper is over, in which data naming a tag that
\* the store does not have was scraped: the tag is reported as created, the
\* item as updated, and nothing was sent.
C20_Witness ==
    /\ run = "bulk"
    /\ options.dry_run
    /\ bulkPc = "done"
    /\ Len(results) >= 1
    /\ results[1].success
    /\ results[1].tags_created # <<>>
    /\ stats.tags_created >= 1
    /\ mutations = <<>>

(***************************************************************************)
(* Running the tag sync again                                              *)
(***************************************************************************)
\* C21: in a run with skip_existing and without force, a tag that the store
\* holds with a description which is not blank (one it had, or one an
\* earlier run wrote) is skipped with "Already has description": no wiki
\* request is made for it and no update is sent; so a second run, started
\* after the first one ended, crashed or was interrupted, leaves every tag
\* the first run updated alone.
C21_RerunLeavesUpdatedTagsAlone ==
    (run \in {"resync", "rerun"} /\ skip_existing /\ ~force) =>
        \A i \in DOMAIN wikiLog :
            stash_tags[i].description \in {"text", "wiki"} =>
                /\ wikiLog[i].requests = <<>>
                /\ i \notin Range(tagUpdateCalls)
                /\ tagDescription[i] = stash_tags[i].description
                /\ i \in DOMAIN syncResults
                /\ syncResults[i].skipped
                /\ syncResults[i].skip_reason = "Already has description"

\* The second run, with the default options, is over: the first tag, which
\* the first run updated, was left alone and the second tag was updated.
C21_Witness ==
    /\ run = "rerun"
    /\ skip_existing /\ ~force /\ ~sync_dry_run
    /\ syncPc = "done"
    /\ stash_tags[1].description = "wiki"
    /\ stash_tags[2].description # "wiki"
    /\ wikiLog[1].requests = <<>>
    /\ tagUpdateCalls = <<2>>
    /\ tagDescription[2] = "wiki"

(***************************************************************************)
(* Properties of _find_wiki_id                                             *)
(***************************************************************************)
\* The links that can be returned: wiki view links whose href gives an id.
WikiLinks == {k \in DOMAIN links : links[k].wiki /\ links[k].id # NoId}

ExactLinks ==
    {k \in WikiLinks : NormalizeText(links[k].text) = normalized_tag}

SubstringLinks ==
    {k \in WikiLinks :
        LET t == NormalizeText(links[k].text) IN
        \/ Contains(t, normalized_tag)
        \/ Contains(normalized_tag, t)}

FirstOf(S) == CHOOSE k \in S : \A j \in S : k <= j

\* C22: when some wiki view link has the normalized text of the query, the
\* id of the first such link is returned, whatever precedes it; if there is
\* none, the id of the first link in page order whose text contains the
\* query or is contained in it; if there is none either, None.
C22_ExactFirstThenFirstSubstring ==
    (run = "find" /\ findPc = "returned") =>
        wiki_id = IF ExactLinks # {} THEN links[FirstOf(ExactLinks)].id
                  ELSE IF SubstringLinks # {}
                      THEN links[FirstOf(SubstringLinks)].id
                  ELSE NoId

\* The call returned the id of the second link, which has the text of the
\* query, although the first link matches as a substring.
C22_Witness ==
    /\ run = "find"
    /\ findPc = "returned"
    /\ Len(links) = 2
    /\ 1 \in SubstringLinks \ ExactLinks
    /\ 2 \in ExactLinks
    /\ wiki_id = 2

(***************************************************************************)
(* Properties of _extract_description                                      *)
(***************************************************************************)
Extracted == run = "extract" /\ extractPc = "returned"

\* C23: a description that _extract_description returns is not empty, has
\* at least 20 characters and at least 5 words, at least half of its
\* characters are alphabetic, and it does not begin with a garbage pattern.
C23_ReturnedDescriptionIsValid ==
    (Extracted /\ description # NoDescription) =>
        /\ description # <<>>
        /\ TextLen(description) >= 20
        /\ WordCount(description) >= 5
        /\ 2 * AlphaCount(description) >= TextLen(description)
        /\ description[1] \notin {"Locked", "Cookie", "Recent"}

\* A description came out of the generic block pass, after a cell with
\* too few words was turned down.
C23_Witness ==
    /\ Extracted
    /\ description = <<"Prose">>
    /\ passes = <<"td", "p", "div">>
    /\ \E k \in DOMAIN soup.tds : soup.tds[k] = <<"Short">>

\* The cells that are scored, the one among them that is offered (the
\* first of those with the highest score, which must be above 0), and what
\* each pass has to give.
ScoredCells ==
    {k \in DOMAIN soup.tds :
        /\ TextLen(soup.tds[k]) >= 30
        /\ ~(Has(soup.tds[k], "Recent") /\ Len(soup.tds[k]) < 5)
        /\ score_description_candidate(soup.tds[k]) > 0}

TopCell ==
    CHOOSE k \in ScoredCells :
        \A j \in ScoredCells :
            \/ score_description_candidate(soup.tds[j])
                  < score_description_candidate(soup.tds[k])
            \/ /\ score_description_candidate(soup.tds[j])
                     = score_description_candidate(soup.tds[k])
               /\ k <= j

CellOffer ==
    IF /\ ScoredCells # {}
       /\ score_description_candidate(soup.tds[TopCell]) >= 10
       /\ is_valid_description(clean_description(soup.tds[TopCell]))
    THEN clean_description(soup.tds[TopCell]) ELSE NoDescription

GoodParagraphs ==
    {k \in DOMAIN soup.ps :
        /\ TextLen(soup.ps[k]) > 50
        /\ is_valid_description(clean_description(soup.ps[k]))}

GoodDivs ==
    {k \in DOMAIN soup.divs :
        /\ ~soup.divs[k].chrome
        /\ TextLen(soup.divs[k].text) > 50
        /\ TextLen(soup.divs[k].text) < 5000
        /\ is_valid_description(clean_description(soup.divs[k].text))}

\* C24: the passes run in the order table cell, paragraph, generic block.
\* The table-cell pass gives the cleaned text of the one highest-scoring
\* scored cell, if its score is at least 10 and the text is valid, and
\* nothing otherwise; the paragraph pass runs exactly when the table-cell
\* pass gave nothing and gives the first valid paragraph; the generic-block
\* pass runs exactly when that gave nothing too.
C24_PassesInOrderFirstValidWins ==
    (Extracted /\ soup.content_div) =>
        /\ passes \in {<<"td">>, <<"td", "p">>, <<"td", "p", "div">>}
        /\ passes = <<"td">> <=> CellOffer # NoDescription
        /\ passes = <<"td">> => description = CellOffer
        /\ passes = <<"td", "p">> <=>
              (CellOffer = NoDescription /\ GoodParagraphs # {})
        /\ passes = <<"td", "p">> =>
              description = clean_description(soup.ps[FirstOf(GoodParagraphs)])
        /\ passes = <<"td", "p", "div">> =>
              description =
                  IF GoodDivs = {} THEN NoDescription
                  ELSE clean_description(soup.divs[FirstOf(GoodDivs)].text)

\* The best cell cleans to an invalid text, another cell with a lower score
\* of at least 10 is valid, and the description is that of a paragraph.
C24_Witness ==
    /\ Extracted
    /\ soup.content_div
    /\ soup.tds = << <<"Header", "Numbers">>, <<"Prose">> >>
    /\ score_description_candidate(soup.tds[2]) >= 10
    /\ passes = <<"td", "p">>
    /\ description = <<"Prose">>

\* The page of scenario C: in the content region, every element holds the
\* cookie-consent block, a short paragraph, or both. A short paragraph is
\* one that no pass takes on its own, having fewer than 30 characters
\* (Brief) or fewer than 5 words (Short).
ScenarioTexts ==
    { <<"Cookie">>, <<"Short">>, <<"Brief">>, <<"Cookie", "Short">>,
      <<"Short", "Cookie">>, <<"Cookie", "Brief">>, <<"Brief", "Cookie">> }

ScenarioC ==
    /\ soup.content_div
    /\ \A k \in DOMAIN soup.tds : soup.tds[k] \in ScenarioTexts
    /\ \A k \in DOMAIN soup.ps : soup.ps[k] \in ScenarioTexts
    /\ \A k \in DOMAIN soup.divs : soup.divs[k].text \in ScenarioTexts
    /\ soup.tds # <<>> \/ soup.ps # <<>> \/ soup.divs # <<>>

\* C25: on a page of scenario C, _extract_description returns None.
C25_ScenarioCGivesNone ==
    (Extracted /\ ScenarioC) => description = NoDescription

(***************************************************************************)
(* Properties of _clean_description                                        *)
(***************************************************************************)
\* C26: cleaning a text that _clean_description produced gives the same
\* text again.
C26_CleaningIsIdempotent ==
    (run = "clean" /\ cleanPc = "twice_cleaned") => twice_cleaned = once_cleaned

(***************************************************************************)
(* Properties of _remove_tag_dumps                                         *)
(***************************************************************************)
\* A dump is detected: the first word of the list is followed by at least
\* 5 underscore-joined words that end within 200 characters from it.
DumpDetected ==
    /\ FirstTagWord(words) # 0
    /\ Cardinality({j \in (FirstTagWord(words) + 1)..Len(words) :
            /\ words[j] = "tag"
            /\ StartOf(words, j) + WordLen(words[j])
                  - StartOf(words, FirstTagWord(words)) <= 200}) >= 5

\* The words before the dump that end a sentence
StopsBeforeDump == {j \in 1..(FirstTagWord(words) - 1) : words[j] = "stop"}

LastOf(S) == CHOOSE k \in S : \A j \in S : j <= k

\* The number of characters a cut after the j-th word keeps
KeptBy(j) == StartOf(words, j) + WordLen(words[j])

\* C27: if a dump is detected, the text returned is the text before the
\* dump, cut after its last sentence when that keeps at least 30% of the
\* characters before the dump, and whole otherwise; if no dump is detected
\* the text is returned as it is.
C27_DumpCutKeepsThirtyPercent ==
    (run = "dump" /\ dumpPc = "returned") =>
        kept_words =
            IF ~DumpDetected THEN words
            ELSE IF /\ StopsBeforeDump # {}
                    /\ 10 * KeptBy(LastOf(StopsBeforeDump))
                          >= 3 * StartOf(words, FirstTagWord(words))
                THEN SubSeq(words, 1, LastOf(StopsBeforeDump))
            ELSE SubSeq(words, 1, FirstTagWord(words) - 1)

(***************************************************************************)
(* Properties of rule34xxx.py main                                         *)
(***************************************************************************)
\* The API answered, and its answer is not XML or holds no post
ParseFailed ==
    /\ api_input.credentials
    /\ api_input.field # "none"
    /\ extract_md5_from_path(api_input.stem) # ""
    /\ api_input.xml.kind \in {"junk", "no_posts"}

\* C29: when the API's answer cannot be parsed or holds no post, the
\* object the scraper prints has no field, the bulk run finds no useful
\* data in what it is handed, and so prepares no update.
C29_ParseFailurePrintsNothing ==
    (run = "api" /\ ParseFailed) =>
        /\ apiPc # "call" => printed = {}
        /\ apiPc \in {"scraped", "judged"} => scraped_data = NoData
        /\ apiPc = "judged" => ~useful

C32_OverwriteOnlyWithForce ==
    (run = "sync" /\ ~force) =>
        \A i \in DOMAIN stash_tags :
            stash_tags[i].description = "text" =>
                /\ tagDescription[i] = "text"
                /\ \A k \in DOMAIN tagUpdateCalls : tagUpdateCalls[k] # i

(***************************************************************************)
(* Properties of the names a result carries                                *)
(***************************************************************************)
NameOrNone(x) == IF x = "None" THEN {} ELSE {x}

\* The names of result r are names of the data d, and no more of them
\* than d gives.
NamesComeFrom(r, d) ==
    /\ Range(r.tags_added) \subseteq EntityNames(d.tags)
    /\ Range(r.tags_created) \subseteq NewNames(d.tags)
    /\ Range(r.performers_added) \subseteq EntityNames(d.performers)
    /\ Range(r.performers_created) \subseteq NewNames(d.performers)
    /\ NameOrNone(r.studio_added) \subseteq EntityNames(d.studio)
    /\ NameOrNone(r.studio_created) \subseteq NewNames(d.studio)
    /\ Len(r.tags_added) <= Len(d.tags)
    /\ Len(r.performers_added) <= Len(d.performers)

RECURSIVE TagsGiven(_)
TagsGiven(rs) ==
    IF rs = <<>> THEN 0
    ELSE (IF Head(rs).success THEN Len(Head(rs).scraped_data.tags) ELSE 0)
            + TagsGiven(Tail(rs))

\* C34: the names a successful result carries are names of the data of
\* the strategy that succeeded, so the run's tags_added count is at most
\* the number of tags those data gave.
C34_NamesOnlyFromSucceededStrategy ==
    run = "bulk" =>
        /\ \A k \in DOMAIN results :
              results[k].success =>
                  NamesComeFrom(results[k], results[k].scraped_data)
        /\ stats.tags_added <= TagsGiven(results)

(***************************************************************************)
(* Properties of TagSyncer's statistics                                    *)
(***************************************************************************)
\* C35: after every sync_tag call total is the number of calls made, and
\* every call counted in total is counted in exactly one of updated,
\* skipped, not_found and errors.
C35_TotalIsSumOfOutcomes ==
    run = "sync" =>
        /\ syncStats.total = Len(wikiLog)
        /\ syncStats.total = syncStats.updated + syncStats.skipped
                                + syncStats.not_found + syncStats.errors

(***************************************************************************)
(* Properties of Rule34TagParser                                           *)
(***************************************************************************)
\* C36: whatever events were fed, no list of the parser holds a name at
\* two places, and no name held is empty, "?" or one character long.
C36_NoDuplicateNoTrivialName ==
    run = "parse" =>
        \A c \in Categories :
            \A i \in DOMAIN parser.tags[c] :
                /\ \A j \in DOMAIN parser.tags[c] :
                      parser.tags[c][i] = parser.tags[c][j] => i = j
                /\ parser.tags[c][i] # <<>>
                /\ parser.tags[c][i] # <<"?">>
                /\ Len(parser.tags[c][i]) > 1

\* Seven events were fed, the last one the end of a link, and "ab" is held
\* once; a name written with an underscore and spaces around it is held
\* as "b c".
C36_Witness ==
    /\ run = "parse"
    /\ events_fed = MaxEvents
    /\ nesting.last = "/a"
    /\ \/ parser.tags["artists"] = << <<"a", "b">> >>
       \/ parser.tags["general"] = << <<"b", " ", "c">> >>

\* C37: current_tag_type is None after every </li>, and no recorded name
\* holds text that was fed outside a list item that selected a category
\* or outside a link opened in it.
C37_NamesOnlyFromLinkText ==
    run = "parse" =>
        /\ nesting.last = "/li" => parser.current_tag_type = "None"
        /\ ~nesting.stray_recorded

(***************************************************************************)
(* Properties of the scraper entry points                                  *)
(***************************************************************************)
\* C38: in rule34xxx_html main, a file name that starts with r34_<digits>
\* leads to the page fetch with no credentials loaded and no API query;
\* with any other name the credentials are loaded before anything is
\* requested, and when they are missing the run prints {} and has sent no
\* request.
C38_PostIdFromNameNeedsNoCredentials ==
    (run = "entry" /\ script = "rule34xxx_html") =>
        /\ entry_input.stdin = "r34_name" =>
              /\ effects \in {<<>>, <<"page_fetch">>}
              /\ entryPc = "fetch" => effects = <<>>
        /\ (entry_input.stdin # "r34_name" /\ effects # <<>>) =>
              /\ effects[1] = "load_credentials"
              /\ ~entry_input.credentials =>
                    /\ effects = <<"load_credentials">>
                    /\ entryPc = "done"
                    /\ stdout = <<{}>>

C38_Witness ==
    /\ run = "entry"
    /\ script = "rule34xxx_html"
    /\ entry_input.stdin = "r34_name"
    /\ ~entry_input.credentials
    /\ effects = <<"page_fetch">>
    /\ stdout = <<HtmlMapped>>

\* C39: a run of either entry point that has ended has printed exactly one
\* object, and a run that has not ended has printed nothing yet.
C39_ExactlyOneObjectPrinted ==
    run = "entry" =>
        /\ entryPc = "done" => Len(stdout) = 1
        /\ entryPc # "done" => stdout = <<>>

\* Both scripts end through the handler of an unexpected exception.
C39_Witness ==
    /\ run = "entry"
    /\ entryPc = "done"
    /\ entry_input.stdin = "bad_json"
    /\ entry_input.credentials
    /\ stdout = <<{}>>
    /\ script = "rule34xxx"

\* at most limit items are taken when a limit is given, and the results are
\* one per item taken, in the order of the store
ResultsFollowStore ==
    /\ Len(page_results) = n_fetched
    /\ n_fetched <= Len(store)
    /\ \A i \in 1..Len(page_results) : page_results[i].item_id = store[i]
    /\ limit > 0 => Len(page_results) <= limit

\* a further page is asked for only after a full page and, with a limit,
\* with fewer than limit items taken; scrape_all returns only at an empty
\* page, a short page or a reached limit
PagingStopsInTime ==
    /\ \A i \in 1..(Len(pages_seen) - 1) :
          /\ pages_seen[i].length = BATCH_SIZE
          /\ limit > 0 => pages_seen[i + 1].fetched < limit
    /\ pagePc = "returned" =>
          /\ pages_seen # <<>>
          /\ \/ pages_seen[Len(pages_seen)].length < BATCH_SIZE
             \/ limit > 0 /\ n_fetched >= limit

\* C40: scrape_all terminates and respects the limit. With limit = L > 0 at
\* most L items are scraped and appear in the results; there is one result
\* per item taken, in the order the store lists the items; a further page is
\* fetched only after a full page with the limit not yet reached, so paging
\* stops at the first empty page, the first short page, or once L items have
\* been taken; and every run of the loop ends, by return or by the find call
\* raising.
C40_TerminatesWithinLimit ==
    /\ [](run = "page" => ResultsFollowStore /\ PagingStopsInTime)
    /\ <>(run = "page" => pagePc \in {"returned", "raised"})

\* scrape_all returned with the limit reached in the middle of the second
\* page, the store holding more
C40_Witness ==
    /\ run = "page"
    /\ pagePc = "returned"
    /\ limit = 3
    /\ Len(store) = 5
    /\ Len(page_results) = 3
    /\ Len(pages_seen) = 2

(***************************************************************************)
(* Properties of main's batches                                            *)
(***************************************************************************)
NotDecreasedCounts(f, g) ==
    /\ DOMAIN f \subseteq DOMAIN g
    /\ \A k \in DOMAIN f : f[k] <= g[k]

NotDecreased(st, st2) ==
    /\ \A c \in {"processed", "successful", "skipped", "failed",
                  "tags_created", "tags_added", "performers_created",
                  "performers_added", "studios_created", "studios_added",
                  "fallback_used_count"} : st[c] <= st2[c]
    /\ NotDecreasedCounts(st.metadata_fields_updated,
                          st2.metadata_fields_updated)
    /\ NotDecreasedCounts(st.scraper_success_count, st2.scraper_success_count)
    /\ NotDecreasedCounts(st.scraper_failure_count, st2.scraper_failure_count)

\* C16: no step of the run lowers a counter of the stats, except the step
\* that starts the batch of a new item type (scenes after images when the
\* type is "both"), which happens when the batch before it is over and
\* leaves all counters at zero.
C16_CountersResetOnlyBetweenBatches ==
    [][/\ batch' = batch => NotDecreased(stats, stats')
       /\ ~NotDecreased(stats, stats') =>
             /\ item_type = "both"
             /\ batch = "image" /\ batch' = "scene"
             /\ bulkPc = "done" /\ bulkPc' = "order"
             /\ stats' = ProgressStats]_vars

\* The scene batch is under way after an image batch that had a success.
C16_Witness ==
    /\ run = "main"
    /\ item_type = "both"
    /\ batch = "scene"
    /\ Len(all_results) = 2
    /\ all_results[1].success
    /\ stats.processed = 1
    /\ stats.failed = 1
    /\ stats.successful = 0

(***************************************************************************)
(* Specification                                                           *)
(***************************************************************************)
InitHtmlProgram ==
    run = "html" /\ InitHtml /\ IdleRate /\ IdleOrder /\ IdleSync /\ IdleBulk
        /\ IdleMain /\ IdleText

InitRateProgram ==
    run = "rate" /\ InitRate /\ IdleHtml /\ IdleOrder /\ IdleSync /\ IdleBulk
        /\ IdleMain /\ IdleText

InitOrderProgram ==
    run = "order" /\ InitOrder /\ IdleHtml /\ IdleRate /\ IdleSync /\ IdleBulk
        /\ IdleMain /\ IdleText

InitSyncProgram ==
    run = "sync" /\ InitSync /\ IdleHtml /\ IdleRate /\ IdleOrder /\ IdleBulk
        /\ IdleMain /\ IdleText

InitBulkProgram ==
    run = "bulk" /\ InitBulk /\ InitBulkRate /\ IdleHtml /\ IdleSync
        /\ IdleMain /\ IdleText

InitMainProgram ==
    run = "main" /\ InitMain /\ InitBulkRate /\ IdleHtml /\ IdleSync
        /\ IdleText

InitResyncProgram ==
    run = "resync" /\ InitResync /\ IdleHtml /\ IdleRate /\ IdleOrder
        /\ IdleBulk /\ IdleMain /\ IdleText

InitFindProgram ==
    run = "find" /\ InitFind /\ IdleParse /\ IdleEntry /\ IdlePage
        /\ IdleExtract /\ IdleClean /\ IdleDump /\ IdleApi /\ IdleHtml /\ IdleRate
        /\ IdleOrder /\ IdleSync /\ IdleBulk /\ IdleMain

InitCleanProgram ==
    run = "clean" /\ InitClean /\ IdleParse /\ IdleEntry /\ IdlePage
        /\ IdleFind /\ IdleExtract /\ IdleDump /\ IdleApi /\ IdleHtml
        /\ IdleRate /\ IdleOrder /\ IdleSync /\ IdleBulk /\ IdleMain

InitDumpProgram ==
    run = "dump" /\ InitDump /\ IdleParse /\ IdleEntry /\ IdlePage
        /\ IdleFind /\ IdleExtract /\ IdleClean /\ IdleApi
        /\ IdleHtml /\ IdleRate /\ IdleOrder /\ IdleSync /\ IdleBulk /\ IdleMain

InitApiProgram ==
    run = "api" /\ InitApi /\ IdleParse /\ IdleEntry /\ IdlePage
        /\ IdleFind /\ IdleExtract /\ IdleClean /\ IdleDump
        /\ IdleHtml /\ IdleRate /\ IdleOrder /\ IdleSync /\ IdleBulk /\ IdleMain

InitParseProgram ==
    run = "parse" /\ InitParse /\ IdleEntry /\ IdlePage
        /\ IdleFind /\ IdleExtract /\ IdleClean /\ IdleDump /\ IdleApi
        /\ IdleHtml /\ IdleRate /\ IdleOrder /\ IdleSync /\ IdleBulk /\ IdleMain

InitEntryProgram ==
    run = "entry" /\ InitEntry /\ IdleParse /\ IdlePage
        /\ IdleFind /\ IdleExtract /\ IdleClean /\ IdleDump /\ IdleApi
        /\ IdleHtml /\ IdleRate /\ IdleOrder /\ IdleSync /\ IdleBulk /\ IdleMain

InitPageProgram ==
    run = "page" /\ InitPage /\ IdleParse /\ IdleEntry
        /\ IdleFind /\ IdleExtract /\ IdleClean /\ IdleDump /\ IdleApi
        /\ IdleHtml /\ IdleRate /\ IdleOrder /\ IdleSync /\ IdleBulk /\ IdleMain

InitExtractProgram ==
    run = "extract" /\ InitExtract /\ IdleParse /\ IdleEntry /\ IdlePage
        /\ IdleFind /\ IdleClean /\ IdleDump /\ IdleApi /\ IdleHtml /\ IdleRate
        /\ IdleOrder /\ IdleSync /\ IdleBulk /\ IdleMain

InitSkipProgram ==
    run = "skip" /\ InitSkip /\ IdleHtml /\ IdleRate /\ IdleOrder /\ IdleSync
        /\ IdleMain /\ IdleText

Init ==
    \/ InitHtmlProgram
    \/ InitRateProgram
    \/ InitOrderProgram
    \/ InitSyncProgram
    \/ InitBulkProgram
    \/ InitSkipProgram
    \/ InitMainProgram
    \/ InitResyncProgram
    \/ InitFindProgram
    \/ InitExtractProgram
    \/ InitCleanProgram
    \/ InitDumpProgram
    \/ InitApiProgram
    \/ InitParseProgram
    \/ InitEntryProgram
    \/ InitPageProgram

Next ==
    \/ NextHtml \/ NextRate \/ NextOrder \/ NextSync \/ NextBulk \/ NextSkip
    \/ NextMain \/ NextResync \/ NextFind \/ NextExtract \/ NextClean
    \/ NextDump \/ NextApi \/ NextParse \/ NextEntry \/ NextPage

Spec == Init /\ [][Next]_vars

\* One program at a time.
SpecHtml == InitHtmlProgram /\ [][NextHtml]_vars
SpecRate == InitRateProgram /\ [][NextRate]_vars
SpecOrder == InitOrderProgram /\ [][NextOrder]_vars
SpecSync == InitSyncProgram /\ [][NextSync]_vars
SpecBulk == InitBulkProgram /\ [][NextBulk]_vars
SpecSkip == InitSkipProgram /\ [][NextSkip]_vars
SpecMain == InitMainProgram /\ [][NextMain]_vars
SpecResync == InitResyncProgram /\ [][NextResync]_vars
SpecFind == InitFindProgram /\ [][NextFind]_vars
SpecExtract == InitExtractProgram /\ [][NextExtract]_vars
SpecClean == InitCleanProgram /\ [][NextClean]_vars
SpecDump == InitDumpProgram /\ [][NextDump]_vars
SpecApi == InitApiProgram /\ [][NextApi]_vars
SpecParse == InitParseProgram /\ [][NextParse]_vars
SpecEntry == InitEntryProgram /\ [][NextEntry]_vars
SpecPage == InitPageProgram /\ [][NextPage]_vars
\* scrape_all runs on one thread and nothing in the loop waits: whenever a
\* step of it can be taken, one is taken
SpecPageFair == SpecPage /\ WF_vars(NextPage)

\* The three programs that fetch from a provider.
InitFetch == InitHtmlProgram \/ InitSyncProgram \/ InitBulkProgram
NextFetch == NextHtml \/ NextSync \/ NextBulk
SpecFetch == InitFetch /\ [][NextFetch]_vars

\* The two batch runs.
InitBatch == InitSyncProgram \/ InitBulkProgram
NextBatch == NextSync \/ NextBulk
SpecBatch == InitBatch /\ [][NextBatch]_vars

====
